---- MODULE Spec2Model ----
(***************************************************************************)
(* A model of the log-analysis engine of src-tauri/src/lib.rs: the index   *)
(* built by parse_log_file (encoding detection, line offsets, levels), the *)
(* registry slot AppState.current_index, and the commands that read it.    *)
(*                                                                         *)
(* Representation.  A byte is a number 0..255, a file a sequence of bytes. *)
(* A Rust String is the sequence of its code points.  Option<T> is a       *)
(* sequence of length at most one: <<>> is None and <<x>> is Some(x).      *)
(* Result<T, String> is [ok |-> TRUE, val |-> x] or                        *)
(* [ok |-> FALSE, err |-> e].                                              *)
(***************************************************************************)
EXTENDS Integers, Sequences, FiniteSets, TLC

VARIABLES
    disk,      \* the file system: path -> bytes of the file at that path
    slot,      \* AppState.current_index: Option<Arc<LogIndex>>
    last,      \* the command that has just returned, with its result
    conc       \* in-flight calls that are modelled step by step

vars == <<disk, slot, last, conc>>

(***************************************************************************)
(* Bounds of the model.                                                    *)
(***************************************************************************)
MaxLen == 3

(***************************************************************************)
(* Bytes and code points that the inputs are built from.                   *)
(***************************************************************************)
LF == 10
CR == 13
REPLACEMENT == 65533

None == <<>>
Some(x) == <<x>>
IsSome(o) == Len(o) = 1
Unwrap(o) == o[1]

Ok(v) == [ok |-> TRUE, val |-> v]
Err(e) == [ok |-> FALSE, err |-> e]

Min(a, b) == IF a <= b THEN a ELSE b
Max(a, b) == IF a >= b THEN a ELSE b
Abs(a) == IF a < 0 THEN 0 - a ELSE a

\* bytes[from .. to) with 0-based positions, as the Rust slice &bytes[from..to]
Slice(bytes, from, to) == SubSeq(bytes, from + 1, to)

StartsWith(s, p) == Len(s) >= Len(p) /\ SubSeq(s, 1, Len(p)) = p

\* the ascending sequence of the numbers of a finite set (sort_unstable)
RECURSIVE SortedSeq(_)
SortedSeq(S) ==
    IF S = {} THEN <<>>
    ELSE LET m == CHOOSE x \in S : \A y \in S : x <= y
         IN <<m>> \o SortedSeq(S \ {m})

(***************************************************************************)
(* Decoding: String::from_utf8_lossy and String::from_utf16_lossy.         *)
(***************************************************************************)
IsCont(bytes, i, lo, hi) == i <= Len(bytes) /\ bytes[i] >= lo /\ bytes[i] <= hi

\* One step of the UTF-8 decoder at 1-based position i:
\* <<code point, number of bytes consumed>>; a maximal invalid prefix
\* decodes to U+FFFD.
Utf8Step(bytes, i) ==
    LET b == bytes[i] IN
    IF b < 128 THEN <<b, 1>>
    ELSE IF b >= 194 /\ b <= 223 THEN
        IF IsCont(bytes, i + 1, 128, 191)
        THEN <<(b - 192) * 64 + (bytes[i + 1] - 128), 2>>
        ELSE <<REPLACEMENT, 1>>
    ELSE IF b >= 224 /\ b <= 239 THEN
        LET lo == IF b = 224 THEN 160 ELSE 128
            hi == IF b = 237 THEN 159 ELSE 191
        IN IF ~IsCont(bytes, i + 1, lo, hi) THEN <<REPLACEMENT, 1>>
           ELSE IF ~IsCont(bytes, i + 2, 128, 191) THEN <<REPLACEMENT, 2>>
           ELSE <<(b - 224) * 4096 + (bytes[i + 1] - 128) * 64
                    + (bytes[i + 2] - 128), 3>>
    ELSE IF b >= 240 /\ b <= 244 THEN
        LET lo == IF b = 240 THEN 144 ELSE 128
            hi == IF b = 244 THEN 143 ELSE 191
        IN IF ~IsCont(bytes, i + 1, lo, hi) THEN <<REPLACEMENT, 1>>
           ELSE IF ~IsCont(bytes, i + 2, 128, 191) THEN <<REPLACEMENT, 2>>
           ELSE IF ~IsCont(bytes, i + 3, 128, 191) THEN <<REPLACEMENT, 3>>
           ELSE <<(b - 240) * 262144 + (bytes[i + 1] - 128) * 4096
                    + (bytes[i + 2] - 128) * 64 + (bytes[i + 3] - 128), 4>>
    ELSE <<REPLACEMENT, 1>>

RECURSIVE Utf8From(_, _)
Utf8From(bytes, i) ==
    IF i > Len(bytes) THEN <<>>
    ELSE LET st == Utf8Step(bytes, i)
         IN <<st[1]>> \o Utf8From(bytes, i + st[2])

from_utf8_lossy(bytes) == Utf8From(bytes, 1)

\* bytes.chunks_exact(2) mapped to u16: a trailing odd byte is dropped
chunks_le(bytes) ==
    [k \in 1..(Len(bytes) \div 2) |-> bytes[2 * k - 1] + 256 * bytes[2 * k]]
chunks_be(bytes) ==
    [k \in 1..(Len(bytes) \div 2) |-> 256 * bytes[2 * k - 1] + bytes[2 * k]]

IsHighSurrogate(u) == u >= 55296 /\ u <= 56319
IsLowSurrogate(u) == u >= 56320 /\ u <= 57343

RECURSIVE Utf16From(_, _)
Utf16From(units, i) ==
    IF i > Len(units) THEN <<>>
    ELSE LET u == units[i] IN
         IF IsHighSurrogate(u) /\ i < Len(units) /\ IsLowSurrogate(units[i + 1])
         THEN <<65536 + (u - 55296) * 1024 + (units[i + 1] - 56320)>>
                \o Utf16From(units, i + 2)
         ELSE IF IsHighSurrogate(u) \/ IsLowSurrogate(u)
         THEN <<REPLACEMENT>> \o Utf16From(units, i + 1)
         ELSE <<u>> \o Utf16From(units, i + 1)

from_utf16_lossy(units) == Utf16From(units, 1)

bytes_to_string_with_encoding(bytes, encoding) ==
    CASE encoding = "Utf8" -> from_utf8_lossy(bytes)
      [] encoding = "Utf16Le" -> from_utf16_lossy(chunks_le(bytes))
      [] encoding = "Utf16Be" -> from_utf16_lossy(chunks_be(bytes))

(***************************************************************************)
(* str methods on code-point sequences.                                    *)
(***************************************************************************)
\* char::to_lowercase / to_uppercase on the code points the inputs hold:
\* the ASCII letters and the case pairs of Latin Extended-A (U+0100..U+012F)
to_lowercase_cp(c) ==
    IF c >= 65 /\ c <= 90 THEN c + 32
    ELSE IF c >= 256 /\ c <= 303 /\ c % 2 = 0 THEN c + 1
    ELSE c
to_uppercase_cp(c) ==
    IF c >= 97 /\ c <= 122 THEN c - 32
    ELSE IF c >= 256 /\ c <= 303 /\ c % 2 = 1 THEN c - 1
    ELSE c
to_lowercase(s) == [i \in 1..Len(s) |-> to_lowercase_cp(s[i])]
to_uppercase(s) == [i \in 1..Len(s) |-> to_uppercase_cp(s[i])]

\* char::is_whitespace (the Unicode White_Space property)
is_whitespace(c) ==
    \/ c \in {9, 10, 11, 12, 13, 32, 133, 160, 5760, 8232, 8233, 8239, 8287, 12288}
    \/ (c >= 8192 /\ c <= 8202)

RECURSIVE trim_start(_)
trim_start(s) ==
    IF s # <<>> /\ is_whitespace(s[1]) THEN trim_start(Tail(s)) ELSE s
RECURSIVE trim_end(_)
trim_end(s) ==
    IF s # <<>> /\ is_whitespace(s[Len(s)])
    THEN trim_end(SubSeq(s, 1, Len(s) - 1)) ELSE s
trim(s) == trim_end(trim_start(s))

\* str::contains with a string pattern
MatchAt(s, p, i) == i + Len(p) - 1 <= Len(s) /\ SubSeq(s, i, i + Len(p) - 1) = p
contains(s, p) == \E i \in 1..(Len(s) + 1) : MatchAt(s, p, i)

IsDigit(c) == c >= 48 /\ c <= 57
DigitsValue(s) ==
    LET RECURSIVE val(_, _)
        val(i, acc) == IF i > Len(s) THEN acc ELSE val(i + 1, acc * 10 + (s[i] - 48))
    IN val(1, 0)

\* the end of the run of digits of s that starts at j
RECURSIVE DigitRunEnd(_, _)
DigitRunEnd(s, j) == IF j <= Len(s) /\ IsDigit(s[j]) THEN DigitRunEnd(s, j + 1) ELSE j

\* a decimal numeral with one to three digits after the point, and its value
\* in thousandths
IsDecimal(s) ==
    /\ DigitRunEnd(s, 1) > 1
    /\ DigitRunEnd(s, 1) < Len(s)
    /\ s[DigitRunEnd(s, 1)] = 46
    /\ Len(s) - DigitRunEnd(s, 1) <= 3
    /\ \A i \in (DigitRunEnd(s, 1) + 1)..Len(s) : IsDigit(s[i])
DecimalValue(s) ==
    DigitsValue(SubSeq(s, 1, DigitRunEnd(s, 1) - 1)) * 1000
      + DigitsValue(SubSeq(SubSeq(s, DigitRunEnd(s, 1) + 1, Len(s)) \o <<48, 48>>, 1, 3))

(***************************************************************************)
(* The regex crate, for the patterns the commands are called with.  A      *)
(* pattern source is a String; Regex::new gives None for a source that     *)
(* does not compile.  A compiled regex is [kind, pat, ci]:                 *)
(*   "lit"      the literal pat (no capture group), ci: case-insensitive   *)
(*   "digits"   (\d+)                                                      *)
(*   "decimal"  (\d+\.\d+)                                                 *)
(*   "defBoot"  (?i)(system|boot|start)(ed|ing|up)                         *)
(*   "defLevel" (?i)\[(DEBUG|INFO|WARN|ERROR|FATAL|NORM|TRACE|SUCCESS)\]   *)
(***************************************************************************)
Lit(pat) == [kind |-> "lit", pat |-> pat, ci |-> FALSE]
LitCi(pat) == [kind |-> "lit", pat |-> to_lowercase(pat), ci |-> TRUE]
DigitsRe == [kind |-> "digits", pat |-> <<>>, ci |-> FALSE]
DecimalRe == [kind |-> "decimal", pat |-> <<>>, ci |-> FALSE]

\* the pattern sources the commands are called with, as code points
Src_empty == <<>>
Src_a == <<97>>                         \* a
Src_1 == <<49>>                         \* 1
Src_bad == <<40>>                       \* (   does not compile
Src_digits == <<40, 92, 100, 43, 41>>   \* (\d+)
Src_decimal == <<40, 92, 100, 43, 92, 46, 92, 100, 43, 41>>   \* (\d+\.\d+)

IsPlain(c) == IsDigit(c) \/ (c >= 65 /\ c <= 90) \/ (c >= 97 /\ c <= 122)

\* Regex::new(src).ok(), for sources that are "(", "(\d+)" or plain text
Regex_new(src) ==
    CASE src = Src_bad -> None
      [] src = Src_digits -> Some(DigitsRe)
      [] src = Src_decimal -> Some(DecimalRe)
      [] \A i \in 1..Len(src) : IsPlain(src[i]) -> Some(Lit(src))

\* RegexBuilder::new(src).case_insensitive(true).build().ok()
Regex_new_ci(src) ==
    CASE src = Src_bad -> None
      [] src = Src_digits -> Some(DigitsRe)
      [] src = Src_decimal -> Some(DecimalRe)
      [] \A i \in 1..Len(src) : IsPlain(src[i]) -> Some(LitCi(src))

BootWords ==
    LET heads == {<<115, 121, 115, 116, 101, 109>>,       \* system
                  <<98, 111, 111, 116>>,                  \* boot
                  <<115, 116, 97, 114, 116>>}             \* start
        tails == {<<101, 100>>, <<105, 110, 103>>, <<117, 112>>}  \* ed ing up
    IN {h \o t : h \in heads, t \in tails}

LevelWords ==
    {<<68, 69, 66, 85, 71>>, <<73, 78, 70, 79>>, <<87, 65, 82, 78>>,
     <<69, 82, 82, 79, 82>>, <<70, 65, 84, 65, 76>>, <<78, 79, 82, 77>>,
     <<84, 82, 65, 67, 69>>, <<83, 85, 67, 67, 69, 83, 83>>}

default_boot_re == [kind |-> "defBoot", pat |-> <<>>, ci |-> TRUE]
default_level_re == [kind |-> "defLevel", pat |-> <<>>, ci |-> TRUE]

\* the length of the match of \d+\.\d+ at i: digits, the point, digits
DecimalLenAt(s, i) ==
    IF DigitRunEnd(s, i) > i /\ DigitRunEnd(s, i) <= Len(s) /\ s[DigitRunEnd(s, i)] = 46
       /\ DigitRunEnd(s, DigitRunEnd(s, i) + 1) > DigitRunEnd(s, i) + 1
    THEN Some(DigitRunEnd(s, DigitRunEnd(s, i) + 1) - i)
    ELSE None

\* the 1-based positions at which the regex matches, with the match length
MatchLenAt(re, s, i) ==
    CASE re.kind = "lit" ->
           IF MatchAt(IF re.ci THEN to_lowercase(s) ELSE s, re.pat, i)
           THEN Some(Len(re.pat)) ELSE None
      [] re.kind = "digits" ->
           IF i <= Len(s) /\ IsDigit(s[i])
           THEN LET RECURSIVE run(_)
                    run(j) == IF j <= Len(s) /\ IsDigit(s[j]) THEN run(j + 1) ELSE j
                IN Some(run(i) - i)
           ELSE None
      [] re.kind = "decimal" -> DecimalLenAt(s, i)
      [] re.kind = "defBoot" ->
           IF \E w \in BootWords : MatchAt(to_lowercase(s), w, i)
           THEN Some(Len(CHOOSE w \in BootWords : MatchAt(to_lowercase(s), w, i)))
           ELSE None
      [] re.kind = "defLevel" ->
           LET up == to_uppercase(s)
               hit(w) == MatchAt(up, <<91>> \o w \o <<93>>, i)
           IN IF \E w \in LevelWords : hit(w)
              THEN Some(Len(CHOOSE w \in LevelWords : hit(w)) + 2)
              ELSE None

\* Regex::is_match
is_match(re, s) == \E i \in 1..(Len(s) + 1) : IsSome(MatchLenAt(re, s, i))

\* the start of the leftmost match
match_start(re, s) ==
    CHOOSE k \in 1..(Len(s) + 1) :
        /\ IsSome(MatchLenAt(re, s, k))
        /\ \A j \in 1..(k - 1) : ~IsSome(MatchLenAt(re, s, j))

\* the groups of the match of n characters at i, as
\* [len |-> number of groups including group 0, g0 |-> text, g1 |-> Option]
groups_at(re, s, i, n) ==
    CASE re.kind = "lit" -> [len |-> 1, g0 |-> SubSeq(s, i, i + n - 1), g1 |-> None]
      [] re.kind \in {"digits", "decimal"} ->
           [len |-> 2, g0 |-> SubSeq(s, i, i + n - 1),
            g1 |-> Some(SubSeq(s, i, i + n - 1))]
      [] re.kind = "defBoot" -> [len |-> 3, g0 |-> SubSeq(s, i, i + n - 1), g1 |-> None]
      [] re.kind = "defLevel" ->
           [len |-> 2, g0 |-> SubSeq(s, i, i + n - 1),
            g1 |-> Some(SubSeq(s, i + 1, i + n - 2))]

captures_at(re, s, i) == Some(groups_at(re, s, i, Unwrap(MatchLenAt(re, s, i))))

\* Regex::captures: the leftmost match
captures(re, s) ==
    IF ~is_match(re, s) THEN None ELSE captures_at(re, s, match_start(re, s))

(***************************************************************************)
(* The index: LogIndex {mmap, offsets, levels, encoding}.  offsets holds   *)
(* 0-based byte positions; line idx (0-based) is offsets[idx + 1] here.    *)
(***************************************************************************)
\* the BOM test of parse_log_file: <<encoding, start_offset>>
detect_encoding(bytes) ==
    IF StartsWith(bytes, <<255, 254>>) THEN <<"Utf16Le", 2>>
    ELSE IF StartsWith(bytes, <<254, 255>>) THEN <<"Utf16Be", 2>>
    ELSE IF StartsWith(bytes, <<239, 187, 191>>) THEN <<"Utf8", 3>>
    ELSE <<"Utf8", 0>>

\* the positions after each newline, as the three parallel filters find them
newline_offsets(bytes, encoding, start_offset) ==
    LET at(idx) == bytes[idx + 1]
        range == start_offset..(Len(bytes) - 1)
    IN CASE encoding = "Utf16Le" ->
              {idx + 2 : idx \in {i \in range : at(i) = LF /\ (i - start_offset) % 2 = 0}}
         [] encoding = "Utf16Be" ->
              {idx + 1 : idx \in {i \in range : at(i) = LF /\ (i - start_offset) % 2 = 1}}
         [] OTHER ->
              {idx + 1 : idx \in {i \in range : at(i) = LF}}

\* the last position is never dropped
pop_phantom_kept(offsets, len) == offsets

\* if offsets.last() == Some(&bytes.len()) { offsets.pop(); }
pop_phantom(offsets, len) ==
    IF offsets # <<>> /\ offsets[Len(offsets)] = len
    THEN SubSeq(offsets, 1, Len(offsets) - 1)
    ELSE offsets

build_offsets(bytes) ==
    LET enc == detect_encoding(bytes)
        nl == newline_offsets(bytes, enc[1], enc[2])
    IN pop_phantom(<<enc[2]>> \o SortedSeq(nl), Len(bytes))

\* start and end of line idx (0-based):
\* end = if idx + 1 < line_count { offsets[idx+1] } else { bytes.len() }
line_start(offsets, idx) == offsets[idx + 1]
line_end(bytes, offsets, idx) ==
    IF idx + 1 < Len(offsets) THEN offsets[idx + 2] ELSE Len(bytes)

\* &bytes[start..end] panics unless start <= end <= bytes.len()
slice_in_bounds(bytes, start, end) == start <= end /\ end <= Len(bytes)

line_bytes(bytes, offsets, idx) ==
    Slice(bytes, line_start(offsets, idx), line_end(bytes, offsets, idx))

line_str(bytes, offsets, encoding, idx) ==
    bytes_to_string_with_encoding(line_bytes(bytes, offsets, idx), encoding)

\* the level of one line from the captures of level_re: capture group 1 if
\* the regex has groups, else the whole match, uppercased
level_of(cap) ==
    IF ~IsSome(cap) THEN None
    ELSE IF Unwrap(cap).len > 1
         THEN (IF IsSome(Unwrap(cap).g1)
               THEN Some(to_uppercase(Unwrap(Unwrap(cap).g1))) ELSE None)
         ELSE Some(to_uppercase(Unwrap(cap).g0))

extract_level(level_re, str) ==
    IF ~IsSome(level_re) THEN None ELSE level_of(captures(Unwrap(level_re), str))

\* let level_re = if !level_regex.is_empty() { Regex::new(..).ok() } else { default }
compile_level_re(level_regex) ==
    IF level_regex # <<>> THEN Regex_new(level_regex) ELSE Some(default_level_re)

\* let boot_re = if !boot_regex.is_empty() { Regex::new(..).ok() } else { default }
compile_boot_re(boot_regex) ==
    IF boot_regex # <<>> THEN Regex_new(boot_regex) ELSE Some(default_boot_re)

build_levels(bytes, offsets, encoding, level_re) ==
    [k \in 1..Len(offsets) |->
        extract_level(level_re, line_str(bytes, offsets, encoding, k - 1))]

\* sessions_count: matching lines + 1, or 1 without a regex
count_sessions(bytes, offsets, encoding, boot_re) ==
    IF IsSome(boot_re)
    THEN Cardinality({idx \in 0..(Len(offsets) - 1) :
            is_match(Unwrap(boot_re), line_str(bytes, offsets, encoding, idx))}) + 1
    ELSE 1

\* the per-line slices of the level pass: one out of bounds panics the call
index_panics(bytes, offsets) ==
    \E idx \in 0..(Len(offsets) - 1) :
        ~slice_in_bounds(bytes, line_start(offsets, idx), line_end(bytes, offsets, idx))

index_of(bytes, offsets, encoding, level_regex) ==
    [mmap |-> bytes,
     offsets |-> offsets,
     levels |-> build_levels(bytes, offsets, encoding, compile_level_re(level_regex)),
     encoding |-> encoding]

build_index(bytes, level_regex) ==
    index_of(bytes, build_offsets(bytes), detect_encoding(bytes)[1], level_regex)

NoFile == Err("IoError")
NoIndex == Err("NoIndex")
Panicked == Err("panic")

\* parse_log_file up to the construction of the index: the result of the call
\* and the index to install (None when the call fails before installing)
file_info(path, bytes, offsets, encoding, boot_regex) ==
    [name |-> path,
     size |-> Len(bytes),
     lines |-> Len(offsets),
     sessions |-> count_sessions(bytes, offsets, encoding, compile_boot_re(boot_regex))]

open_bytes(path, bytes, offsets, encoding, boot_regex, level_regex) ==
    IF index_panics(bytes, offsets) THEN [res |-> Panicked, index |-> None]
    ELSE [res |-> Ok(file_info(path, bytes, offsets, encoding, boot_regex)),
          index |-> Some(index_of(bytes, offsets, encoding, level_regex))]

open_outcome(files, path, boot_regex, level_regex) ==
    IF path \notin DOMAIN files THEN [res |-> NoFile, index |-> None]
    ELSE open_bytes(path, files[path], build_offsets(files[path]),
                    detect_encoding(files[path])[1], boot_regex, level_regex)

(***************************************************************************)
(* Timestamps.  An f64 number of seconds is held in thousandths            *)
(* (TimeScale to the second), so 5.1 s is 5100.                            *)
(***************************************************************************)
TimeScale == 1000

\* try_parse_timestamp on the strings the timestamp patterns capture: a run
\* of ASCII digits or a decimal numeral parses as f64; a string with neither
\* form nor the ':' of the four chrono formats parses as nothing
try_parse_timestamp(s) ==
    LET str == trim(s) IN
    IF str # <<>> /\ \A i \in 1..Len(str) : IsDigit(str[i])
    THEN Some(DigitsValue(str) * TimeScale)
    ELSE IF IsDecimal(str) THEN Some(DecimalValue(str))
    ELSE None

RECURSIVE DigitsOf(_)
DigitsOf(n) == IF n < 10 THEN <<48 + n>> ELSE DigitsOf(n \div 10) \o <<48 + (n % 10)>>

\* format!("{:.2}", v) for v held in thousandths
fmt_2(v) ==
    LET cents == (Abs(v) * 100 + (TimeScale \div 2)) \div TimeScale
        frac == cents % 100
    IN (IF v < 0 THEN <<45>> ELSE <<>>) \o DigitsOf(cents \div 100) \o <<46>>
         \o <<48 + (frac \div 10), 48 + (frac % 10)>>

Str_FullLog == <<70, 117, 108, 108, 32, 76, 111, 103>>
Str_EndOfFile == <<69, 110, 100, 32, 111, 102, 32, 70, 105, 108, 101>>
Str_TimeGapDetected ==
    <<84, 105, 109, 101, 32, 71, 97, 112, 32, 68, 101, 116, 101, 99, 116, 101, 100, 58, 32>>

(***************************************************************************)
(* The session segmenters.                                                 *)
(***************************************************************************)
LogSession(id, start_line, end_line, boot_marker) ==
    [id |-> id, start_line |-> start_line, end_line |-> end_line,
     boot_marker |-> boot_marker]

\* the session pushed after the loop
tail_session(session_id, current_session_start, line_count) ==
    LogSession(session_id, current_session_start, line_count,
               IF line_count > 0 THEN Str_EndOfFile ELSE Str_FullLog)

\* if let Some(ref re) = boot_re { if re.is_match(&line_str) && idx > 0 {..} }
boot_split(boot_re, str, idx) ==
    IsSome(boot_re) /\ is_match(Unwrap(boot_re), str) /\ idx > 0

\* caps.get(1).map(..).unwrap_or(caps.get(0)..), then try_parse_timestamp
timestamp_of(cap) ==
    IF ~IsSome(cap) THEN None
    ELSE try_parse_timestamp(IF IsSome(Unwrap(cap).g1)
                             THEN Unwrap(Unwrap(cap).g1) ELSE Unwrap(cap).g0)

\* the timestamp of a line in parse_log_content: group 1, or else group 0
content_timestamp(ts_re, str) ==
    IF ~IsSome(ts_re) THEN None ELSE timestamp_of(captures(Unwrap(ts_re), str))

\* step 2 reads a timestamp only if step 1 did not split and the threshold
\* is positive
content_current_time(bsplit, ts_re, time_gap_threshold, str) ==
    IF ~bsplit /\ time_gap_threshold > 0 THEN content_timestamp(ts_re, str) ELSE None

\* if (current_time - last).abs() > time_gap_threshold
gap_split(cur, last_time, time_gap_threshold) ==
    /\ IsSome(cur)
    /\ IsSome(last_time)
    /\ Abs(Unwrap(cur) - Unwrap(last_time)) > time_gap_threshold

content_marker(bsplit, gsplit, cur, last_time, str) ==
    IF gsplit
    THEN Str_TimeGapDetected \o fmt_2(Unwrap(cur) - Unwrap(last_time)) \o <<115>>
    ELSE IF bsplit THEN trim(str) ELSE <<>>

\* the next session starts on the last line of the pushed one
content_push_overlap(acc, idx, str, split_session, boot_marker, last_time) ==
    IF split_session /\ idx > 0
    THEN [sessions |-> Append(acc.sessions,
                         LogSession(acc.session_id, acc.current_session_start, idx,
                                    IF boot_marker = <<>> THEN trim(str) ELSE boot_marker)),
          current_session_start |-> idx,
          session_id |-> acc.session_id + 1,
          last_time |-> last_time]
    ELSE [acc EXCEPT !.last_time = last_time]

\* if split_session && idx > 0 { sessions.push(..); .. }
content_push(acc, idx, str, split_session, boot_marker, last_time) ==
    IF split_session /\ idx > 0
    THEN [sessions |-> Append(acc.sessions,
                         LogSession(acc.session_id, acc.current_session_start, idx,
                                    IF boot_marker = <<>> THEN trim(str) ELSE boot_marker)),
          current_session_start |-> idx + 1,
          session_id |-> acc.session_id + 1,
          last_time |-> last_time]
    ELSE [acc EXCEPT !.last_time = last_time]

content_decide(acc, time_gap_threshold, idx, str, bsplit, cur, gsplit) ==
    content_push(acc, idx, str, bsplit \/ gsplit,
                 content_marker(bsplit, gsplit, cur, acc.last_time, str),
                 IF IsSome(cur) THEN cur ELSE acc.last_time)

content_gap(acc, time_gap_threshold, idx, str, bsplit, cur) ==
    content_decide(acc, time_gap_threshold, idx, str, bsplit, cur,
                   gap_split(cur, acc.last_time, time_gap_threshold))

content_line(acc, boot_re, ts_re, time_gap_threshold, idx, str, bsplit) ==
    content_gap(acc, time_gap_threshold, idx, str, bsplit,
                content_current_time(bsplit, ts_re, time_gap_threshold, str))

\* one iteration of the loop of parse_log_content on the accumulator
\* [sessions, current_session_start, session_id, last_time]
content_step(acc, index, boot_re, ts_re, time_gap_threshold, idx) ==
    CHOOSE next \in
      {content_line(acc, boot_re, ts_re, time_gap_threshold, idx, str,
                    boot_split(boot_re, str, idx))
         : str \in {line_str(index.mmap, index.offsets, index.encoding, idx)}} : TRUE

RECURSIVE content_walk(_, _, _, _, _, _)
content_walk(acc, index, boot_re, ts_re, time_gap_threshold, idx) ==
    IF idx >= Len(index.offsets) THEN acc
    ELSE CHOOSE done \in
           {content_walk(next, index, boot_re, ts_re, time_gap_threshold, idx + 1)
              : next \in {content_step(acc, index, boot_re, ts_re,
                                       time_gap_threshold, idx)}} : TRUE

walk_start ==
    [sessions |-> <<>>, current_session_start |-> 1, session_id |-> 0, last_time |-> None]

ParsedLog(sessions, index) ==
    [sessions |-> sessions, line_count |-> Len(index.offsets), levels |-> index.levels]

\* let ts_re = if !timestamp_regex.is_empty() { Regex::new(..).ok() } else { None }
compile_ts_re(timestamp_regex) ==
    IF timestamp_regex # <<>> THEN Regex_new(timestamp_regex) ELSE None

\* the sessions of the loop and the session pushed after it
with_tail(acc, index) ==
    Ok(ParsedLog(Append(acc.sessions,
                        tail_session(acc.session_id, acc.current_session_start,
                                     Len(index.offsets))),
                 index))

\* an empty slot answered with an empty result
segment_by_boot_lenient(snapshot, boot_regex, timestamp_regex, time_gap_threshold) ==
    IF ~IsSome(snapshot) THEN Ok(<<>>)
    ELSE with_tail(content_walk(walk_start, Unwrap(snapshot),
                                compile_boot_re(boot_regex),
                                compile_ts_re(timestamp_regex), time_gap_threshold, 0),
                   Unwrap(snapshot))

\* parse_log_content on the snapshot of the slot
segment_by_boot(snapshot, boot_regex, timestamp_regex, time_gap_threshold) ==
    IF ~IsSome(snapshot) THEN NoIndex
    ELSE with_tail(content_walk(walk_start, Unwrap(snapshot),
                                compile_boot_re(boot_regex),
                                compile_ts_re(timestamp_regex), time_gap_threshold, 0),
                   Unwrap(snapshot))

\* the splitters that are non-empty and compile
RECURSIVE compiled_splitters(_)
compiled_splitters(splitter_regexes) ==
    IF splitter_regexes = <<>> THEN <<>>
    ELSE LET regex_str == Head(splitter_regexes)
             rest == compiled_splitters(Tail(splitter_regexes))
         IN IF regex_str # <<>> /\ IsSome(Regex_new(regex_str))
            THEN <<Unwrap(Regex_new(regex_str))>> \o rest
            ELSE rest

\* if is_match && idx > 0
splitter_split(splitters, str, idx) ==
    (\E k \in 1..Len(splitters) : is_match(splitters[k], str)) /\ idx > 0

splitter_line(acc, splitters, idx, str) ==
    IF splitter_split(splitters, str, idx)
    THEN [acc EXCEPT
            !.sessions = Append(@, LogSession(acc.session_id, acc.current_session_start,
                                              idx, trim(str))),
            !.current_session_start = idx + 1,
            !.session_id = @ + 1]
    ELSE acc

splitter_step(acc, index, splitters, idx) ==
    splitter_line(acc, splitters, idx,
                  line_str(index.mmap, index.offsets, index.encoding, idx))

RECURSIVE splitter_walk(_, _, _, _)
splitter_walk(acc, index, splitters, idx) ==
    IF idx >= Len(index.offsets) THEN acc
    ELSE CHOOSE done \in
           {splitter_walk(next, index, splitters, idx + 1)
              : next \in {splitter_step(acc, index, splitters, idx)}} : TRUE

\* the loop and the tail of parse_log_with_custom_splitters on an index
segment_by_splitters(index, splitter_regexes) ==
    with_tail(splitter_walk(walk_start, index, compiled_splitters(splitter_regexes), 0),
              index)

(***************************************************************************)
(* The query layer.  Every command works on the snapshot of the slot it    *)
(* took on entry.                                                          *)
(***************************************************************************)
LogLine(index, idx, content) ==
    [line_number |-> idx + 1, content |-> content, level |-> index.levels[idx + 1]]

\* start_line taken for a 0-based index
range_start_idx_zero_based(start_line, line_count) == Min(Max(start_line, 1), line_count)

\* let start_idx = (start_line.max(1) - 1).min(line_count);
range_start_idx(start_line, line_count) == Min(Max(start_line, 1) - 1, line_count)
\* one line past end_line
range_end_idx_past(end_line, line_count) == Min(end_line + 1, line_count)

\* let end_idx = end_line.min(line_count);
range_end_idx(end_line, line_count) == Min(end_line, line_count)

\* the lines start_idx .. end_idx - 1 of the index, in order
range_lines(index, start_idx, end_idx) ==
    [k \in 1..(end_idx - start_idx) |->
        LogLine(index, start_idx + k - 1,
                line_str(index.mmap, index.offsets, index.encoding, start_idx + k - 1))]

get_log_range(snapshot, start_line, end_line) ==
    IF ~IsSome(snapshot) THEN NoIndex
    ELSE LET index == Unwrap(snapshot)
             line_count == Len(index.offsets)
             start_idx == range_start_idx(start_line, line_count)
             end_idx == range_end_idx(end_line, line_count)
         IN IF start_idx >= end_idx THEN Ok(<<>>)
            ELSE Ok(range_lines(index, start_idx, end_idx))

\* the elements of a sequence that satisfy Keep, in order
FilterSeq(s, Keep(_)) ==
    LET F[i \in 0..Len(s)] ==
            IF i = 0 THEN <<>>
            ELSE IF Keep(s[i]) THEN Append(F[i - 1], s[i]) ELSE F[i - 1]
    IN F[Len(s)]

RECURSIVE Flatten(_)
Flatten(ss) == IF ss = <<>> THEN <<>> ELSE Head(ss) \o Flatten(Tail(ss))

\* the 0-based indices lo .. hi - 1 in order
IndexSeq(lo, hi) == [k \in 1..(hi - lo) |-> lo + k - 1]

get_log_lines_by_indices(snapshot, indices) ==
    IF ~IsSome(snapshot) THEN NoIndex
    ELSE LET index == Unwrap(snapshot)
             line_count == Len(index.offsets)
             keep(idx) == idx < line_count
             kept == FilterSeq(indices, keep)
         IN Ok([k \in 1..Len(kept) |->
                  LogLine(index, kept[k],
                          line_str(index.mmap, index.offsets, index.encoding, kept[k]))])

\* query.trim_matches(|c| c == '\r' || c == '\n')
RECURSIVE trim_matches_crlf(_)
trim_matches_crlf(s) ==
    IF s # <<>> /\ s[1] \in {CR, LF} THEN trim_matches_crlf(Tail(s))
    ELSE IF s # <<>> /\ s[Len(s)] \in {CR, LF}
    THEN trim_matches_crlf(SubSeq(s, 1, Len(s) - 1))
    ELSE s

\* the end of the line without its trailing newline bytes, per encoding
RECURSIVE strip_newline(_, _, _, _)
strip_newline(bytes, encoding, start_pos, end_pos) ==
    IF encoding \in {"Utf16Le", "Utf16Be"}
    THEN IF end_pos >= start_pos + 2
            /\ LET b1 == bytes[end_pos - 1]
                   b2 == bytes[end_pos]
               IN \/ encoding = "Utf16Le" /\ b1 \in {LF, CR} /\ b2 = 0
                  \/ encoding = "Utf16Be" /\ b1 = 0 /\ b2 \in {LF, CR}
         THEN strip_newline(bytes, encoding, start_pos, end_pos - 2)
         ELSE end_pos
    ELSE IF end_pos > start_pos /\ bytes[end_pos] \in {LF, CR}
         THEN strip_newline(bytes, encoding, start_pos, end_pos - 1)
         ELSE end_pos

\* the content search_log matches and returns for line idx
search_line_str(index, idx) ==
    LET start_pos == line_start(index.offsets, idx)
        end_pos == strip_newline(index.mmap, index.encoding, start_pos,
                                 line_end(index.mmap, index.offsets, idx))
    IN bytes_to_string_with_encoding(Slice(index.mmap, start_pos, end_pos), index.encoding)

\* search_fn: Some(regex) or, for a plain query, Some(lowercased literal)
search_matches(trimmed_query, is_regex, str) ==
    IF is_regex THEN is_match(Unwrap(Regex_new_ci(trimmed_query)), str)
    ELSE contains(to_lowercase(str), to_lowercase(trimmed_query))

\* the matching lines among idx lo .. hi - 1, in order
search_scan(index, trimmed_query, is_regex, lo, hi) ==
    LET hit(idx) == search_matches(trimmed_query, is_regex, search_line_str(index, idx))
        hits == FilterSeq(IndexSeq(lo, hi), hit)
    IN [k \in 1..Len(hits) |-> LogLine(index, hits[k], search_line_str(index, hits[k]))]

\* the flat_map closure of search_log for one (start, end) range
search_in_range(index, trimmed_query, is_regex, range) ==
    LET n == Len(index.offsets)
        start_idx == Min(Max(range[1], 1) - 1, n)
        end_idx == Min(range[2], n)
    IN IF start_idx >= end_idx THEN <<>>
       ELSE search_scan(index, trimmed_query, is_regex, start_idx, end_idx)

\* ranges.into_par_iter().flat_map(..).collect(): rayon keeps the order of
\* the ranges and, within a range, of the lines
search_ranges(index, trimmed_query, is_regex, ranges) ==
    Flatten([k \in 1..Len(ranges) |->
                search_in_range(index, trimmed_query, is_regex, ranges[k])])

search_log(snapshot, query, is_regex, line_ranges) ==
    IF ~IsSome(snapshot) THEN NoIndex
    ELSE LET index == Unwrap(snapshot)
             trimmed_query == trim_matches_crlf(query)
         IN IF trimmed_query = <<>> THEN Ok(<<>>)
            ELSE IF is_regex /\ ~IsSome(Regex_new_ci(trimmed_query)) THEN Err("RegexError")
            ELSE IF IsSome(line_ranges)
                 THEN IF Unwrap(line_ranges) = <<>> THEN Ok(<<>>)
                      ELSE Ok(search_ranges(index, trimmed_query, is_regex,
                                            Unwrap(line_ranges)))
                 ELSE Ok(search_scan(index, trimmed_query, is_regex, 0, Len(index.offsets)))

\* ranges.iter().any(|(s, e)| ln >= *s && ln <= *e)
in_some_range(ranges, ln) ==
    \E k \in 1..Len(ranges) : ln >= ranges[k][1] /\ ln <= ranges[k][2]

Str_INFO == <<73, 78, 70, 79>>

\* highlights trimmed and lowercased, without the empty ones
filter_keywords(highlights) ==
    LET nonempty(s) == s # <<>>
    IN FilterSeq([k \in 1..Len(highlights) |-> to_lowercase(trim(highlights[k]))],
                 nonempty)

\* one refinement string, parsed by its prefix
parse_refinement(raw) ==
    LET s == trim(raw)
        rest == Tail(s)
    IN CASE s[1] = 33 -> [mode |-> "Exclude", k |-> to_lowercase(rest), re |-> None]
         [] s[1] = 47 ->
              [mode |-> "Regex", k |-> <<>>,
               re |-> IF IsSome(Regex_new_ci(rest)) THEN Regex_new_ci(rest)
                      ELSE Some(LitCi(<<>>))]
         [] s[1] = 61 -> [mode |-> "Exact", k |-> rest, re |-> None]
         [] s[1] = 63 -> [mode |-> "Include", k |-> to_lowercase(rest), re |-> None]
         [] OTHER -> [mode |-> "Include", k |-> to_lowercase(s), re |-> None]

parse_refinements(refinements) ==
    LET nonblank(s) == trim(s) # <<>>
        kept == FilterSeq(refinements, nonblank)
    IN [k \in 1..Len(kept) |-> parse_refinement(kept[k])]

refinement_passes(ref_mode, str) ==
    CASE ref_mode.mode = "Include" -> contains(to_lowercase(str), ref_mode.k)
      [] ref_mode.mode = "Exclude" -> ~contains(to_lowercase(str), ref_mode.k)
      [] ref_mode.mode = "Regex" -> is_match(Unwrap(ref_mode.re), str)
      [] ref_mode.mode = "Exact" -> contains(str, ref_mode.k)

\* an empty list of ranges taken for no restriction
seed_range_ok_lenient(line_ranges, ln) ==
    (IsSome(line_ranges) /\ Unwrap(line_ranges) # <<>>) =>
        in_some_range(Unwrap(line_ranges), ln)

\* the range test of the seed closure
seed_range_ok(line_ranges, ln) ==
    IsSome(line_ranges) => in_some_range(Unwrap(line_ranges), ln)

\* the level test of the seed closure
seed_level_ok(index, levels_set, idx) ==
    levels_set # {} =>
        (IF IsSome(index.levels[idx + 1])
         THEN to_uppercase(Unwrap(index.levels[idx + 1]))
         ELSE Str_INFO) \in levels_set

\* the keyword test of the seed closure
seed_keyword_ok(index, keywords, idx) ==
    keywords = <<>> \/
    LET lower == to_lowercase(line_str(index.mmap, index.offsets, index.encoding, idx))
    IN \E k \in 1..Len(keywords) : contains(lower, keywords[k])

\* phase 1: is_seed[idx]
is_seed(index, levels_set, line_ranges, keywords, idx) ==
    /\ seed_range_ok(line_ranges, idx + 1)
    /\ seed_level_ok(index, levels_set, idx)
    /\ seed_keyword_ok(index, keywords, idx)

\* the context expansion left out
in_trace_seeds_only(index, levels_set, line_ranges, keywords, context_lines, j) ==
    is_seed(index, levels_set, line_ranges, keywords, j)

\* phase 2: in_trace[j]
in_trace(index, levels_set, line_ranges, keywords, context_lines, j) ==
    LET line_count == Len(index.offsets)
        seed(i) == is_seed(index, levels_set, line_ranges, keywords, i)
    IN IF keywords # <<>> /\ context_lines > 0
       THEN \E i \in 0..(line_count - 1) :
               /\ seed(i)
               /\ j >= Max(i - context_lines, 0)
               /\ j <= Min(i + context_lines, line_count - 1)
       ELSE seed(j)

get_filtered_indices(snapshot, log_levels, line_ranges, highlights, context_lines, refinements) ==
    IF ~IsSome(snapshot) THEN NoIndex
    ELSE LET index == Unwrap(snapshot)
             line_count == Len(index.offsets)
             levels_set == {to_uppercase(log_levels[k]) : k \in 1..Len(log_levels)}
             keywords == filter_keywords(highlights)
             parsed == parse_refinements(refinements)
             keep(idx) ==
                 /\ in_trace(index, levels_set, line_ranges, keywords, context_lines, idx)
                 /\ \A r \in 1..Len(parsed) :
                       refinement_passes(parsed[r],
                           line_str(index.mmap, index.offsets, index.encoding, idx))
         IN Ok(FilterSeq(IndexSeq(0, line_count), keep))

\* the text save_filtered_logs writes: "<n>: <line without trailing space>\n"
\* for each index below line_count, in the caller's order
RECURSIVE filtered_text(_, _)
filtered_text(index, indices) ==
    IF indices = <<>> THEN <<>>
    ELSE LET idx == Head(indices) IN
         (IF idx >= Len(index.offsets) THEN <<>>
          ELSE DigitsOf(idx + 1) \o <<58, 32>>
                 \o trim_end(line_str(index.mmap, index.offsets, index.encoding, idx))
                 \o <<LF>>)
         \o filtered_text(index, Tail(indices))

\* save_filtered_logs; can_create: whether File::create(path) succeeds
save_filtered_logs(snapshot, can_create, indices) ==
    IF ~IsSome(snapshot) THEN NoIndex
    ELSE IF ~can_create THEN Err("IoError")
    ELSE Ok(filtered_text(Unwrap(snapshot), indices))

\* find_first: the smallest matching index
find_first_occurrence(snapshot, query, line_ranges) ==
    IF ~IsSome(snapshot) THEN NoIndex
    ELSE LET index == Unwrap(snapshot)
             query_lower == to_lowercase(query)
             hit(idx) ==
                 /\ IsSome(line_ranges) => in_some_range(Unwrap(line_ranges), idx + 1)
                 /\ contains(to_lowercase(line_str(index.mmap, index.offsets,
                                                   index.encoding, idx)), query_lower)
             hits == {idx \in 0..(Len(index.offsets) - 1) : hit(idx)}
         IN Ok(IF hits = {} THEN None
               ELSE Some(CHOOSE idx \in hits : \A other \in hits : idx <= other))

(***************************************************************************)
(* Analytics.  Times here are f64 milliseconds, held as integers.          *)
(***************************************************************************)
\* val < 10_000_000_000.0 for a run of digits: at most SecondsDigits digits
\* after the leading zeros
SecondsDigits == 10

RECURSIVE strip_zeros(_)
strip_zeros(s) == IF s # <<>> /\ s[1] = 48 THEN strip_zeros(Tail(s)) ELSE s

\* parse_timestamp_to_ms on the strings the timestamp patterns capture: a
\* run of digits parses as f64 (seconds below 10^10, else milliseconds), a
\* decimal numeral as seconds; a string that is neither a number nor in one
\* of the seven date formats gives 0.0
parse_timestamp_to_ms(ts_str) ==
    IF ts_str # <<>> /\ \A i \in 1..Len(ts_str) : IsDigit(ts_str[i])
    THEN LET val == DigitsValue(ts_str)
         IN IF Len(strip_zeros(ts_str)) <= SecondsDigits THEN val * 1000 ELSE val
    ELSE IF IsDecimal(ts_str) THEN DecimalValue(ts_str)
    ELSE 0

\* caps.get(1).map(|m| m.as_str())
group1(cap) == Unwrap(cap).g1
\* if caps.len() > 1 { caps.get(1) } else { caps.get(0) }
group1_or_whole(cap) ==
    IF Unwrap(cap).len > 1 THEN Unwrap(cap).g1 ELSE Some(Unwrap(cap).g0)

\* s.parse::<f64>() on the captured strings: a run of digits is a number
parse_f64(s) ==
    IF s # <<>> /\ \A i \in 1..Len(s) : IsDigit(s[i]) THEN Some(DigitsValue(s)) ELSE None

\* extract_metrics decodes every line as UTF-8, whatever the encoding
metric_of(index, re, idx) ==
    LET line == from_utf8_lossy(line_bytes(index.mmap, index.offsets, idx))
        cap == captures(re, line)
    IN IF ~IsSome(cap) THEN None
       ELSE IF ~IsSome(group1_or_whole(cap)) THEN None
       ELSE IF ~IsSome(parse_f64(Unwrap(group1_or_whole(cap)))) THEN None
       ELSE Some([line_number |-> idx + 1,
                  value |-> Unwrap(parse_f64(Unwrap(group1_or_whole(cap))))])

extract_metrics(snapshot, regex) ==
    IF ~IsSome(snapshot) THEN NoIndex
    ELSE IF ~IsSome(Regex_new(regex)) THEN Err("RegexError")
    ELSE LET index == Unwrap(snapshot)
             re == Unwrap(Regex_new(regex))
             has(idx) == IsSome(metric_of(index, re, idx))
             hits == FilterSeq(IndexSeq(0, Len(index.offsets)), has)
         IN Ok([k \in 1..Len(hits) |-> Unwrap(metric_of(index, re, hits[k]))])

\* the Option<f64> of one line in analyze_time_gaps
gap_timestamp(index, re, idx) ==
    LET cap == captures(re, line_str(index.mmap, index.offsets, index.encoding, idx))
    IN IF ~IsSome(cap) THEN None
       ELSE LET current_ms ==
                    parse_timestamp_to_ms(IF IsSome(group1(cap))
                                          THEN Unwrap(group1(cap)) ELSE <<>>)
            IN IF current_ms > 0 THEN Some(current_ms) ELSE None

GapThreshold == 10

\* the sequential pass of analyze_time_gaps from line idx on
RECURSIVE gaps_walk(_, _, _, _)
gaps_walk(timestamps, idx, last_time, gaps) ==
    IF idx >= Len(timestamps) THEN gaps
    ELSE LET ts_opt == timestamps[idx + 1] IN
         IF ~IsSome(ts_opt) THEN gaps_walk(timestamps, idx + 1, last_time, gaps)
         ELSE gaps_walk(timestamps, idx + 1, ts_opt,
                  IF IsSome(last_time) /\ Unwrap(ts_opt) - Unwrap(last_time) > GapThreshold
                  THEN Append(gaps, [line_number |-> idx + 1,
                                     gap_ms |-> Unwrap(ts_opt) - Unwrap(last_time)])
                  ELSE gaps)

analyze_time_gaps(snapshot, timestamp_regex) ==
    IF ~IsSome(snapshot) THEN NoIndex
    ELSE IF ~IsSome(Regex_new(timestamp_regex)) THEN Err("RegexError")
    ELSE LET index == Unwrap(snapshot)
             re == Unwrap(Regex_new(timestamp_regex))
             timestamps == [k \in 1..Len(index.offsets) |-> gap_timestamp(index, re, k - 1)]
         IN Ok(gaps_walk(timestamps, 0, None, <<>>))

\* ts_re.captures(&line).and_then(|c| c.get(1)).map(parse_timestamp_to_ms).unwrap_or(0.0)
meta_ts(ts_re, line) ==
    LET cap == captures(ts_re, line) IN
    IF IsSome(cap) /\ IsSome(group1(cap))
    THEN parse_timestamp_to_ms(Unwrap(group1(cap))) ELSE 0

\* the id of a line: group 1 of id_re if it has groups, else the whole match
meta_id(id_re, line) ==
    IF ~IsSome(id_re) THEN None
    ELSE LET cap == captures(Unwrap(id_re), line)
         IN IF IsSome(cap) THEN group1_or_whole(cap) ELSE None

LineMeta(index, start_re, end_re, ts_re, id_re, idx) ==
    LET line == line_str(index.mmap, index.offsets, index.encoding, idx) IN
    [line_num |-> idx + 1,
     ts |-> meta_ts(ts_re, line),
     id |-> meta_id(id_re, line),
     is_start |-> is_match(start_re, line),
     is_end |-> is_match(end_re, line)]

WorkflowSegment(start_line, end_line, start_time, end_time, id) ==
    [start_line |-> start_line, end_line |-> end_line, start_time |-> start_time,
     end_time |-> end_time, duration_ms |-> end_time - start_time, id |-> id]

\* HashMap::insert and HashMap::remove on a map held as a function
map_insert(m, k, v) == [x \in DOMAIN m \cup {k} |-> IF x = k THEN v ELSE m[x]]
map_remove(m, k) == [x \in DOMAIN m \ {k} |-> m[x]]
EmptyMap == [x \in {} |-> <<>>]

\* the start half of one iteration of the matching loop
workflow_on_start(st, meta) ==
    IF ~meta.is_start THEN st
    ELSE IF IsSome(meta.id)
    THEN [st EXCEPT !.active_starts_with_id =
                        map_insert(@, Unwrap(meta.id), <<meta.line_num, st.last_valid_ts>>)]
    ELSE [st EXCEPT !.active_starts_no_id = Append(@, <<meta.line_num, st.last_valid_ts>>)]

\* the pending starts taken as a queue: the oldest start first
workflow_on_end_fifo(st, meta) ==
    IF ~meta.is_end THEN st
    ELSE IF IsSome(meta.id)
    THEN IF Unwrap(meta.id) \in DOMAIN st.active_starts_with_id
         THEN LET s == st.active_starts_with_id[Unwrap(meta.id)] IN
              [st EXCEPT
                 !.active_starts_with_id = map_remove(@, Unwrap(meta.id)),
                 !.segments = IF st.last_valid_ts > 0 /\ s[2] > 0
                              THEN Append(@, WorkflowSegment(s[1], meta.line_num, s[2],
                                                             st.last_valid_ts, meta.id))
                              ELSE @]
         ELSE st
    ELSE IF st.active_starts_no_id # <<>>
         THEN LET s == Head(st.active_starts_no_id) IN
              [st EXCEPT
                 !.active_starts_no_id = Tail(@),
                 !.segments = IF st.last_valid_ts > 0 /\ s[2] > 0
                              THEN Append(@, WorkflowSegment(s[1], meta.line_num, s[2],
                                                             st.last_valid_ts, None))
                              ELSE @]
         ELSE st

\* the end half of one iteration of the matching loop
workflow_on_end(st, meta) ==
    IF ~meta.is_end THEN st
    ELSE IF IsSome(meta.id)
    THEN IF Unwrap(meta.id) \in DOMAIN st.active_starts_with_id
         THEN LET s == st.active_starts_with_id[Unwrap(meta.id)] IN
              [st EXCEPT
                 !.active_starts_with_id = map_remove(@, Unwrap(meta.id)),
                 !.segments = IF st.last_valid_ts > 0 /\ s[2] > 0
                              THEN Append(@, WorkflowSegment(s[1], meta.line_num, s[2],
                                                             st.last_valid_ts, meta.id))
                              ELSE @]
         ELSE st
    ELSE IF st.active_starts_no_id # <<>>
         THEN LET s == st.active_starts_no_id[Len(st.active_starts_no_id)] IN
              [st EXCEPT
                 !.active_starts_no_id = SubSeq(@, 1, Len(@) - 1),
                 !.segments = IF st.last_valid_ts > 0 /\ s[2] > 0
                              THEN Append(@, WorkflowSegment(s[1], meta.line_num, s[2],
                                                             st.last_valid_ts, None))
                              ELSE @]
         ELSE st

workflow_step(st, meta) ==
    LET seen == IF meta.ts > 0 THEN [st EXCEPT !.last_valid_ts = meta.ts] ELSE st
    IN workflow_on_end(workflow_on_start(seen, meta), meta)

RECURSIVE workflow_walk(_, _, _)
workflow_walk(st, metas, k) ==
    IF k > Len(metas) THEN st
    ELSE workflow_walk(workflow_step(st, metas[k]), metas, k + 1)

\* id_regex: None, or Some(source); an empty source is no id regex
analyze_workflow_duration(snapshot, start_regex, end_regex, timestamp_regex, id_regex) ==
    IF ~IsSome(snapshot) THEN NoIndex
    ELSE IF ~IsSome(Regex_new(start_regex)) THEN Err("RegexError")
    ELSE IF ~IsSome(Regex_new(end_regex)) THEN Err("RegexError")
    ELSE IF ~IsSome(Regex_new(timestamp_regex)) THEN Err("RegexError")
    ELSE IF IsSome(id_regex) /\ Unwrap(id_regex) # <<>>
            /\ ~IsSome(Regex_new(Unwrap(id_regex))) THEN Err("RegexError")
    ELSE LET index == Unwrap(snapshot)
             id_re == IF IsSome(id_regex) /\ Unwrap(id_regex) # <<>>
                      THEN Regex_new(Unwrap(id_regex)) ELSE None
             metas == [k \in 1..Len(index.offsets) |->
                         LineMeta(index, Unwrap(Regex_new(start_regex)),
                                  Unwrap(Regex_new(end_regex)),
                                  Unwrap(Regex_new(timestamp_regex)), id_re, k - 1)]
             st == workflow_walk([segments |-> <<>>,
                                  active_starts_with_id |-> EmptyMap,
                                  active_starts_no_id |-> <<>>,
                                  last_valid_ts |-> 0], metas, 1)
         IN Ok(st.segments)

\* the first hit kept as the baseline of every segment
recurrent_step_first_baseline(st, hit) ==
    LET last_valid_ts == IF hit.ts > 0 THEN hit.ts ELSE st.last_valid_ts IN
    IF hit.is_hit /\ last_valid_ts > 0
    THEN [segments |-> IF IsSome(st.last_hit)
                       THEN Append(st.segments,
                                   WorkflowSegment(Unwrap(st.last_hit)[1], hit.line_num,
                                                   Unwrap(st.last_hit)[2], last_valid_ts,
                                                   None))
                       ELSE st.segments,
          last_hit |-> IF IsSome(st.last_hit) THEN st.last_hit
                       ELSE Some(<<hit.line_num, last_valid_ts>>),
          last_valid_ts |-> last_valid_ts]
    ELSE [st EXCEPT !.last_valid_ts = last_valid_ts]

\* one iteration of the interval loop on [segments, last_hit, last_valid_ts]
recurrent_step(st, hit) ==
    LET last_valid_ts == IF hit.ts > 0 THEN hit.ts ELSE st.last_valid_ts IN
    IF hit.is_hit /\ last_valid_ts > 0
    THEN [segments |-> IF IsSome(st.last_hit)
                       THEN Append(st.segments,
                                   WorkflowSegment(Unwrap(st.last_hit)[1], hit.line_num,
                                                   Unwrap(st.last_hit)[2], last_valid_ts,
                                                   None))
                       ELSE st.segments,
          last_hit |-> Some(<<hit.line_num, last_valid_ts>>),
          last_valid_ts |-> last_valid_ts]
    ELSE [st EXCEPT !.last_valid_ts = last_valid_ts]

RECURSIVE recurrent_walk(_, _, _)
recurrent_walk(st, hits, k) ==
    IF k > Len(hits) THEN st
    ELSE recurrent_walk(recurrent_step(st, hits[k]), hits, k + 1)

analyze_recurrent_intervals(snapshot, regex, timestamp_regex) ==
    IF ~IsSome(snapshot) THEN NoIndex
    ELSE IF ~IsSome(Regex_new(regex)) THEN Err("RegexError")
    ELSE IF ~IsSome(Regex_new(timestamp_regex)) THEN Err("RegexError")
    ELSE LET index == Unwrap(snapshot)
             hits == [k \in 1..Len(index.offsets) |->
                        LET line == line_str(index.mmap, index.offsets, index.encoding, k - 1)
                        IN [line_num |-> k,
                            ts |-> meta_ts(Unwrap(Regex_new(timestamp_regex)), line),
                            is_hit |-> is_match(Unwrap(Regex_new(regex)), line)]]
             st == recurrent_walk([segments |-> <<>>, last_hit |-> None,
                                   last_valid_ts |-> 0], hits, 1)
         IN Ok(st.segments)

Str_HHMMSS == <<72, 72, 58, 77, 77, 58, 83, 83>>
Str_N == <<78>>
Str_0xADDR == <<48, 120, 65, 68, 68, 82>>

IsHex(c) == IsDigit(c) \/ (c >= 65 /\ c <= 70) \/ (c >= 97 /\ c <= 102)

\* the length of the run of characters satisfying P that starts at i
RunLen(s, i, P(_)) ==
    LET R[j \in i..(Len(s) + 1)] ==
            IF j <= Len(s) /\ P(s[j]) THEN R[j + 1] + 1 ELSE 0
    IN IF i > Len(s) THEN 0 ELSE R[i]

\* \d{2}:\d{2}:\d{2} at position i
TimeAt(s, i) ==
    /\ i + 7 <= Len(s)
    /\ \A k \in {0, 1, 3, 4, 6, 7} : IsDigit(s[i + k])
    /\ s[i + 2] = 58 /\ s[i + 5] = 58

\* ts_re.replace_all(&fingerprint, "HH:MM:SS")
RECURSIVE replace_time(_, _)
replace_time(s, i) ==
    IF i > Len(s) THEN <<>>
    ELSE IF TimeAt(s, i) THEN Str_HHMMSS \o replace_time(s, i + 8)
    ELSE <<s[i]>> \o replace_time(s, i + 1)

\* n_re.replace_all(&fingerprint, "N")
RECURSIVE replace_digits(_, _)
replace_digits(s, i) ==
    IF i > Len(s) THEN <<>>
    ELSE IF IsDigit(s[i]) THEN Str_N \o replace_digits(s, i + RunLen(s, i, IsDigit))
    ELSE <<s[i]>> \o replace_digits(s, i + 1)

\* addr_re.replace_all(&fingerprint, "0xADDR")
RECURSIVE replace_addr(_, _)
replace_addr(s, i) ==
    IF i > Len(s) THEN <<>>
    ELSE IF i + 2 <= Len(s) /\ s[i] = 48 /\ s[i + 1] = 120 /\ IsHex(s[i + 2])
    THEN Str_0xADDR \o replace_addr(s, i + 2 + RunLen(s, i + 2, IsHex))
    ELSE <<s[i]>> \o replace_addr(s, i + 1)

\* the digit runs replaced before the times
fingerprint_digits_first(line) ==
    replace_addr(replace_time(replace_digits(line, 1), 1), 1)

\* the three substitutions, in the order of the code
fingerprint(line) ==
    replace_addr(replace_digits(replace_time(line, 1), 1), 1)

\* the lines that are not blank, with their fingerprints
pattern_lines(index) ==
    {idx \in 0..(Len(index.offsets) - 1) :
        trim(line_str(index.mmap, index.offsets, index.encoding, idx)) # <<>>}

\* the fold and the reduce: per fingerprint the number of lines and the first
\* level that is not None, in line order
pattern_counts(index) ==
    LET fp(idx) == fingerprint(line_str(index.mmap, index.offsets, index.encoding, idx))
        of(f) == {idx \in pattern_lines(index) : fp(idx) = f}
        levelled(f) == {idx \in of(f) : IsSome(index.levels[idx + 1])}
    IN {[content |-> f,
         count |-> Cardinality(of(f)),
         level |-> IF levelled(f) = {} THEN None
                   ELSE index.levels[(CHOOSE i \in levelled(f) :
                                         \A j \in levelled(f) : i <= j) + 1]]
        : f \in {fp(idx) : idx \in pattern_lines(index)}}

TopPatterns == 50

\* the orders stats.sort_by(|a, b| b.count.cmp(&a.count)) can leave: the
\* HashMap iterates in any order and the sort is stable, so stats of equal
\* count come in any order
pattern_orders(stats) ==
    {s \in [1..Cardinality(stats) -> stats] :
        /\ \A i, j \in 1..Cardinality(stats) : i # j => s[i] # s[j]
        /\ \A i \in 1..(Cardinality(stats) - 1) : s[i].count >= s[i + 1].count}

analyze_log_patterns(snapshot, order) ==
    IF ~IsSome(snapshot) THEN NoIndex
    ELSE Ok(SubSeq(order, 1, Min(Len(order), TopPatterns)))

(***************************************************************************)
(* The inputs: the files on disk and the arguments of the commands.        *)
(***************************************************************************)
SeqsUpTo(S, n) == UNION {[1..k -> S] : k \in 0..n}

\* the UTF-8 bytes of one code point
utf8_bytes(c) ==
    IF c < 128 THEN <<c>>
    ELSE IF c < 2048 THEN <<192 + (c \div 64), 128 + (c % 64)>>
    ELSE IF c < 65536
    THEN <<224 + (c \div 4096), 128 + ((c \div 64) % 64), 128 + (c % 64)>>
    ELSE <<240 + (c \div 262144), 128 + ((c \div 4096) % 64),
           128 + ((c \div 64) % 64), 128 + (c % 64)>>
\* a text (code points of the basic plane) in the three encodings
encode_utf8(text) == Flatten([k \in 1..Len(text) |-> utf8_bytes(text[k])])
encode_utf16le(text) ==
    Flatten([k \in 1..Len(text) |-> <<text[k] % 256, text[k] \div 256>>])
encode_utf16be(text) ==
    Flatten([k \in 1..Len(text) |-> <<text[k] \div 256, text[k] % 256>>])

Bom16Le == <<255, 254>>
Bom16Be == <<254, 255>>
Bom8 == <<239, 187, 191>>

\* texts of LF, 'a', '1', written in each encoding
TextChars == {10, 97, 49}
Texts == SeqsUpTo(TextChars, MaxLen)
TextFiles ==
    UNION {{encode_utf8(text), Bom8 \o encode_utf8(text),
            Bom16Le \o encode_utf16le(text), Bom16Be \o encode_utf16be(text)}
           : text \in Texts}
\* any bytes of LF, NUL, 'a' after a UTF-16 BOM or none: these hold the
\* UTF-16 files of odd length and the misaligned ones
RawBytes == {10, 0, 97}
RawFiles ==
    {bom \o body : bom \in {<<>>, Bom16Le, Bom16Be},
                   body \in SeqsUpTo(RawBytes, MaxLen)}
\* longer logs: a\n1\na\n (a marker on the third line) and 1\n9\n1 (timestamps
\* eight seconds apart), in UTF-8 and in UTF-16LE
SampleTexts == {<<97, 10, 49, 10, 97, 10>>, <<49, 10, 57, 10, 49>>}
SampleFiles ==
    UNION {{encode_utf8(text), Bom16Le \o encode_utf16le(text)} : text \in SampleTexts}
Files == TextFiles \cup RawFiles \cup SampleFiles

LogPath == "log"
OpenPaths == {LogPath, "missing"}

BootArgs == {Src_empty, Src_a, Src_bad}
LevelArgs == {Src_empty, Src_a, Src_bad}
TimestampArgs == {Src_empty, Src_digits}
\* time_gap_threshold, in thousandths of a second
ThresholdArgs == {0, 2 * TimeScale}
SplitterArgs == {<<>>, <<Src_bad, Src_1>>, <<Src_empty, Src_a, Src_1>>}
LineArgs == 0..(MaxLen + 1)
IndicesArgs == {<<>>, <<1, 0>>, <<MaxLen + 1, 1, 1>>}
\* a, A LF, the empty query, (
QueryArgs == {Src_a, <<65, 10>>, Src_empty, Src_bad}
\* absent, or up to two of the ranges (1, 1) and (2, 3) in any order
RangeSet == {<<1, 1>>, <<2, 3>>}
RangesArgs == {None} \cup {Some(r) : r \in SeqsUpTo(RangeSet, 2)}
\* absent, present and empty, one range, two ranges out of order
FilterRangesArgs == {None, Some(<<>>), Some(<<<<1, 1>>>>), Some(<<<<2, 3>>, <<1, 1>>>>)}
\* none, "a" (the level A), "INFO"
LevelsArgs == {<<>>, <<Src_a>>, <<Str_INFO>>}
\* none; " A " and the empty keyword; 1
HighlightsArgs == {<<>>, <<<<32, 65, 32>>, <<>>>>, <<Src_1>>}
ContextArgs == {0, 1}
\* none; !1 and a blank one; /a and =a and ?a
RefinementsArgs ==
    {<<>>, <<<<33, 49>>, <<32>>>>, <<<<47, 97>>, <<61, 97>>, <<63, 97>>>>}
MetricArgs == {Src_digits, Src_1, Src_a, Src_bad}
IdArgs == {None, Some(Src_empty), Some(Src_a), Some(Src_bad)}

(***************************************************************************)
(* The state machine.  A command is invoked when no result is pending      *)
(* (last.cmd = "none"), runs on the snapshot of the slot it takes on entry *)
(* and leaves its result in last; Respond hands the result to the caller.  *)
(***************************************************************************)
Idle == [cmd |-> "none", args |-> <<>>, res |-> Ok(<<>>)]
Returned(cmd, args, res) == [cmd |-> cmd, args |-> args, res |-> res]

\* the calls that are in flight step by step: one get_log_range and one
\* parse_log_file
ConcIdle == [query |-> [pc |-> "idle"], open |-> [pc |-> "idle"]]

Init ==
    /\ disk \in {[p \in {LogPath} |-> f] : f \in Files}
    /\ slot = None
    /\ last = Idle
    /\ conc = ConcIdle

\* the slot assigned whatever the call produced
install_always(current, outcome) == outcome.index

\* let mut current = state.current_index.lock().unwrap(); *current = Some(index);
install(current, outcome) ==
    IF IsSome(outcome.index) THEN outcome.index ELSE current

ParseLogFile(path, boot_regex, level_regex) ==
    /\ last.cmd = "none"
    /\ \E outcome \in {open_outcome(disk, path, boot_regex, level_regex)} :
       /\ slot' = install(slot, outcome)
       /\ last' = Returned("parse_log_file", <<path, boot_regex, level_regex>>, outcome.res)
    /\ UNCHANGED <<disk, conc>>

ParseLogContent(boot_regex, timestamp_regex, time_gap_threshold) ==
    /\ last.cmd = "none"
    /\ last' = Returned("parse_log_content",
                        <<boot_regex, timestamp_regex, time_gap_threshold>>,
                        segment_by_boot(slot, boot_regex, timestamp_regex,
                                        time_gap_threshold))
    /\ UNCHANGED <<disk, slot, conc>>

\* parse_log_file(path, "", "").await?; then the loop on the index it installed
after_reopen(reopened, splitter_regexes) ==
    IF ~reopened.res.ok THEN reopened
    ELSE [res |-> segment_by_splitters(Unwrap(reopened.index), splitter_regexes),
          index |-> reopened.index]

\* with an empty slot the command opens path itself with the default
\* patterns, returns the error of that open, or goes on with the slot
custom_splitters_outcome(current, files, path, splitter_regexes) ==
    IF IsSome(current)
    THEN [res |-> segment_by_splitters(Unwrap(current), splitter_regexes),
          index |-> None]
    ELSE after_reopen(open_outcome(files, path, <<>>, <<>>), splitter_regexes)

ParseLogWithCustomSplitters(path, splitter_regexes) ==
    /\ last.cmd = "none"
    /\ \E outcome \in {custom_splitters_outcome(slot, disk, path, splitter_regexes)} :
       /\ slot' = install(slot, outcome)
       /\ last' = Returned("parse_log_with_custom_splitters",
                           <<path, splitter_regexes>>, outcome.res)
    /\ UNCHANGED <<disk, conc>>

GetLogRange(start_line, end_line) ==
    /\ last.cmd = "none"
    /\ last' = Returned("get_log_range", <<start_line, end_line>>,
                        get_log_range(slot, start_line, end_line))
    /\ UNCHANGED <<disk, slot, conc>>

GetLogLinesByIndices(indices) ==
    /\ last.cmd = "none"
    /\ last' = Returned("get_log_lines_by_indices", <<indices>>,
                        get_log_lines_by_indices(slot, indices))
    /\ UNCHANGED <<disk, slot, conc>>

SearchLog(query, is_regex, line_ranges) ==
    /\ last.cmd = "none"
    /\ last' = Returned("search_log", <<query, is_regex, line_ranges>>,
                        search_log(slot, query, is_regex, line_ranges))
    /\ UNCHANGED <<disk, slot, conc>>

GetFilteredIndices(log_levels, line_ranges, highlights, context_lines, refinements) ==
    /\ last.cmd = "none"
    /\ last' = Returned("get_filtered_indices",
                        <<log_levels, line_ranges, highlights, context_lines, refinements>>,
                        get_filtered_indices(slot, log_levels, line_ranges, highlights,
                                             context_lines, refinements))
    /\ UNCHANGED <<disk, slot, conc>>

\* the target file is not one of the paths the commands open: what is
\* written is kept in the result
SaveFilteredLogs(can_create, indices) ==
    /\ last.cmd = "none"
    /\ last' = Returned("save_filtered_logs", <<can_create, indices>>,
                        save_filtered_logs(slot, can_create, indices))
    /\ UNCHANGED <<disk, slot, conc>>

FindFirstOccurrence(query, line_ranges) ==
    /\ last.cmd = "none"
    /\ last' = Returned("find_first_occurrence", <<query, line_ranges>>,
                        find_first_occurrence(slot, query, line_ranges))
    /\ UNCHANGED <<disk, slot, conc>>

AnalyzeLogPatterns ==
    /\ last.cmd = "none"
    /\ \E order \in (IF IsSome(slot) THEN pattern_orders(pattern_counts(Unwrap(slot)))
                     ELSE {<<>>}) :
          last' = Returned("analyze_log_patterns", <<>>, analyze_log_patterns(slot, order))
    /\ UNCHANGED <<disk, slot, conc>>

ExtractMetrics(regex) ==
    /\ last.cmd = "none"
    /\ last' = Returned("extract_metrics", <<regex>>, extract_metrics(slot, regex))
    /\ UNCHANGED <<disk, slot, conc>>

AnalyzeTimeGaps(timestamp_regex) ==
    /\ last.cmd = "none"
    /\ last' = Returned("analyze_time_gaps", <<timestamp_regex>>,
                        analyze_time_gaps(slot, timestamp_regex))
    /\ UNCHANGED <<disk, slot, conc>>

AnalyzeWorkflowDuration(start_regex, end_regex, timestamp_regex, id_regex) ==
    /\ last.cmd = "none"
    /\ last' = Returned("analyze_workflow_duration",
                        <<start_regex, end_regex, timestamp_regex, id_regex>>,
                        analyze_workflow_duration(slot, start_regex, end_regex,
                                                  timestamp_regex, id_regex))
    /\ UNCHANGED <<disk, slot, conc>>

AnalyzeRecurrentIntervals(regex, timestamp_regex) ==
    /\ last.cmd = "none"
    /\ last' = Returned("analyze_recurrent_intervals", <<regex, timestamp_regex>>,
                        analyze_recurrent_intervals(slot, regex, timestamp_regex))
    /\ UNCHANGED <<disk, slot, conc>>

\* the pending result goes back to the caller
Respond ==
    /\ last.cmd # "none"
    /\ last' = Idle
    /\ UNCHANGED <<disk, slot, conc>>

Open == \E path \in OpenPaths, boot_regex \in BootArgs, level_regex \in LevelArgs :
            ParseLogFile(path, boot_regex, level_regex)
SegmentByBoot ==
    \E boot_regex \in BootArgs, timestamp_regex \in TimestampArgs,
       time_gap_threshold \in ThresholdArgs :
          ParseLogContent(boot_regex, timestamp_regex, time_gap_threshold)
SegmentBySplitters ==
    \E path \in OpenPaths, splitter_regexes \in SplitterArgs :
          ParseLogWithCustomSplitters(path, splitter_regexes)
Range == \E start_line \in LineArgs, end_line \in LineArgs :
            GetLogRange(start_line, end_line)
LinesByIndices == \E indices \in IndicesArgs : GetLogLinesByIndices(indices)
Search == \E query \in QueryArgs, is_regex \in BOOLEAN, line_ranges \in RangesArgs :
            SearchLog(query, is_regex, line_ranges)
FilteredIndices ==
    \E log_levels \in LevelsArgs, line_ranges \in FilterRangesArgs,
       highlights \in HighlightsArgs, context_lines \in ContextArgs,
       refinements \in RefinementsArgs :
          GetFilteredIndices(log_levels, line_ranges, highlights, context_lines, refinements)
SaveFiltered == \E can_create \in BOOLEAN, indices \in IndicesArgs :
                    SaveFilteredLogs(can_create, indices)
FirstOccurrence == \E query \in QueryArgs, line_ranges \in RangesArgs :
                        FindFirstOccurrence(query, line_ranges)
Patterns == AnalyzeLogPatterns
Metrics == \E regex \in MetricArgs : ExtractMetrics(regex)
TimeGaps == \E timestamp_regex \in MetricArgs : AnalyzeTimeGaps(timestamp_regex)
WorkflowDuration ==
    \E start_regex \in {Src_a, Src_bad}, end_regex \in {Src_1, Src_a},
       timestamp_regex \in {Src_digits}, id_regex \in IdArgs :
          AnalyzeWorkflowDuration(start_regex, end_regex, timestamp_regex, id_regex)
RecurrentIntervals ==
    \E regex \in {Src_a, Src_bad}, timestamp_regex \in {Src_digits, Src_bad} :
          AnalyzeRecurrentIntervals(regex, timestamp_regex)

Next ==
    \/ Open
    \/ SegmentByBoot
    \/ SegmentBySplitters
    \/ Range
    \/ LinesByIndices
    \/ Search
    \/ FilteredIndices
    \/ SaveFiltered
    \/ FirstOccurrence
    \/ Patterns
    \/ Metrics
    \/ TimeGaps
    \/ WorkflowDuration
    \/ RecurrentIntervals
    \/ Respond

Spec == Init /\ [][Next]_vars

(***************************************************************************)
(* The commands taken alone, over the same files.                          *)
(***************************************************************************)
NextOpen == Open \/ Respond
SpecOpen == Init /\ [][NextOpen]_vars

NextSegment == Open \/ SegmentByBoot \/ SegmentBySplitters \/ Respond
SpecSegment == Init /\ [][NextSegment]_vars

NextRange == Open \/ Range \/ Respond
SpecRange == Init /\ [][NextRange]_vars

NextSearch == Open \/ Search \/ Respond
SpecSearch == Init /\ [][NextSearch]_vars

NextFilter == Open \/ FilteredIndices \/ Respond
SpecFilter == Init /\ [][NextFilter]_vars

(***************************************************************************)
(* parse_log_file and get_log_range step by step, over two files: the open *)
(* builds its index outside the lock and installs it under the lock; the   *)
(* query clones the slot under the lock and then reads line after line.    *)
(***************************************************************************)
MaxConcLen == 2
ConcPaths == {LogPath, "log2"}
ConcFiles == {encode_utf8(text) : text \in SeqsUpTo({10, 97}, MaxConcLen)}
ConcLineArgs == 0..(MaxConcLen + 1)

InitConc ==
    /\ disk \in [ConcPaths -> ConcFiles]
    /\ slot = None
    /\ last = Idle
    /\ conc = ConcIdle

\* parse_log_file up to "let mmap_len = bytes.len();"
OpenBuild(path, level_regex) ==
    /\ conc.open.pc = "idle"
    /\ conc' = [conc EXCEPT !.open =
                  [pc |-> "built", outcome |-> open_outcome(disk, path, <<>>, level_regex)]]
    /\ UNCHANGED <<disk, slot, last>>

\* the rest of parse_log_file: the assignment to the slot under the lock
OpenInstall ==
    /\ conc.open.pc = "built"
    /\ slot' = install(slot, conc.open.outcome)
    /\ conc' = [conc EXCEPT !.open = [pc |-> "idle"]]
    /\ UNCHANGED <<disk, last>>

\* let index_opt = { let current = ..lock().unwrap(); current.clone() };
QueryEnter(start_line, end_line) ==
    /\ conc.query.pc = "idle"
    /\ conc' = [conc EXCEPT !.query =
                  [pc |-> "reading", index_opt |-> slot, start_line |-> start_line,
                   end_line |-> end_line, read |-> <<>>]]
    /\ UNCHANGED <<disk, slot, last>>

\* the closure reading the slot again
query_index_reread(index_opt, current) == current

\* the index the closure of the map reads: the clone taken on entry
query_index(index_opt, current) == index_opt

\* one run of the closure: index.offsets[idx] panics beyond the offsets
read_line(index, idx) ==
    IF idx < Len(index.offsets)
    THEN Some(LogLine(index, idx,
                      line_str(index.mmap, index.offsets, index.encoding, idx)))
    ELSE None

query_start_idx(query) ==
    range_start_idx(query.start_line, Len(Unwrap(query.index_opt).offsets))
query_end_idx(query) ==
    range_end_idx(query.end_line, Len(Unwrap(query.index_opt).offsets))

\* the next line of start_idx..end_idx is read
QueryRead ==
    /\ conc.query.pc = "reading"
    /\ IsSome(conc.query.index_opt)
    /\ query_start_idx(conc.query) + Len(conc.query.read) < query_end_idx(conc.query)
    /\ conc' = [conc EXCEPT !.query.read =
                  Append(@, read_line(Unwrap(query_index(conc.query.index_opt, slot)),
                                      query_start_idx(conc.query) + Len(conc.query.read)))]
    /\ UNCHANGED <<disk, slot, last>>

\* Ok(result), or Err("No file opened"), or the panic of a closure
query_result(query) ==
    IF ~IsSome(query.index_opt) THEN NoIndex
    ELSE IF \E k \in 1..Len(query.read) : ~IsSome(query.read[k]) THEN Panicked
    ELSE Ok([k \in 1..Len(query.read) |-> Unwrap(query.read[k])])

QueryReturn ==
    /\ conc.query.pc = "reading"
    /\ IsSome(conc.query.index_opt) =>
         query_start_idx(conc.query) + Len(conc.query.read) >= query_end_idx(conc.query)
    /\ conc' = [conc EXCEPT !.query.pc = "returned"]
    /\ last' = Returned("get_log_range", <<conc.query.start_line, conc.query.end_line>>,
                        query_result(conc.query))
    /\ UNCHANGED <<disk, slot>>

QueryRespond ==
    /\ conc.query.pc = "returned"
    /\ conc' = [conc EXCEPT !.query = [pc |-> "idle"]]
    /\ last' = Idle
    /\ UNCHANGED <<disk, slot>>

OpenBegin == \E path \in ConcPaths : OpenBuild(path, Src_a)
QueryBegin == \E start_line \in ConcLineArgs, end_line \in ConcLineArgs :
                QueryEnter(start_line, end_line)

NextConc ==
    \/ OpenBegin
    \/ OpenInstall
    \/ QueryBegin
    \/ QueryRead
    \/ QueryReturn
    \/ QueryRespond

SpecConc == InitConc /\ [][NextConc]_vars

(***************************************************************************)
(* find_first_occurrence step by step: the index is cloned under the lock, *)
(* the closure of find_first then runs on the indices of 0..line_count in  *)
(* whatever order and on whatever partition the thread pool takes, and an  *)
(* index beyond a match already found may never be tried.                  *)
(***************************************************************************)
\* the closure handed to find_first
first_occurrence_hit(index, query_lower, line_ranges, idx) ==
    /\ IsSome(line_ranges) => in_some_range(Unwrap(line_ranges), idx + 1)
    /\ contains(to_lowercase(line_str(index.mmap, index.offsets, index.encoding, idx)),
                query_lower)

\* the indices the closure has run on, in the order of the runs
tried(tested, idx) == \E k \in 1..Len(tested) : tested[k] = idx

\* find_first keeps the match of the lowest position
better_match(first_match, idx) ==
    IF IsSome(first_match) /\ Unwrap(first_match) < idx THEN first_match ELSE Some(idx)

\* find_any: the scan over as soon as one match is known
scan_done_any(line_count, tested, first_match) ==
    IsSome(first_match) \/ \A idx \in 0..(line_count - 1) : tried(tested, idx)

\* the scan is over when every index before the match found has been tried
scan_done(line_count, tested, first_match) ==
    \A idx \in 0..(line_count - 1) :
        tried(tested, idx) \/ (IsSome(first_match) /\ Unwrap(first_match) < idx)

\* let index = state.current_index.lock().unwrap().clone()
ScanEnter(query, line_ranges) ==
    /\ conc.query.pc = "idle"
    /\ conc' = [conc EXCEPT !.query =
                  [pc |-> "scanning", index_opt |-> slot, query |-> query,
                   line_ranges |-> line_ranges, tested |-> <<>>, first_match |-> None]]
    /\ UNCHANGED <<disk, slot, last>>

\* one run of the closure, on an index no thread has taken yet
ScanTest ==
    /\ conc.query.pc = "scanning"
    /\ IsSome(conc.query.index_opt)
    /\ \E idx \in 0..(Len(Unwrap(conc.query.index_opt).offsets) - 1) :
          /\ ~tried(conc.query.tested, idx)
          /\ conc' = [conc EXCEPT
                        !.query.tested = Append(@, idx),
                        !.query.first_match =
                            IF first_occurrence_hit(Unwrap(conc.query.index_opt),
                                                    to_lowercase(conc.query.query),
                                                    conc.query.line_ranges, idx)
                            THEN better_match(@, idx) ELSE @]
    /\ UNCHANGED <<disk, slot, last>>

\* Ok(first_match), or Err("No file opened")
ScanReturn ==
    /\ conc.query.pc = "scanning"
    /\ IsSome(conc.query.index_opt) =>
         scan_done(Len(Unwrap(conc.query.index_opt).offsets), conc.query.tested,
                   conc.query.first_match)
    /\ conc' = [conc EXCEPT !.query.pc = "scanned"]
    /\ last' = Returned("find_first_occurrence",
                        <<conc.query.query, conc.query.line_ranges>>,
                        IF IsSome(conc.query.index_opt) THEN Ok(conc.query.first_match)
                        ELSE NoIndex)
    /\ UNCHANGED <<disk, slot>>

ScanRespond ==
    /\ conc.query.pc = "scanned"
    /\ conc' = [conc EXCEPT !.query = [pc |-> "idle"]]
    /\ last' = Idle
    /\ UNCHANGED <<disk, slot>>

ScanBegin == \E query \in QueryArgs, line_ranges \in RangesArgs :
                ScanEnter(query, line_ranges)
\* an open between the steps of the scan
ScanOpen == \E level_regex \in {Src_empty} : ParseLogFile(LogPath, Src_empty, level_regex)

NextScan ==
    \/ ScanOpen
    \/ ScanBegin
    \/ ScanTest
    \/ ScanReturn
    \/ ScanRespond

SpecScan == Init /\ [][NextScan]_vars

(***************************************************************************)
(* analyze_time_gaps over files of lines that carry seconds with a         *)
(* fraction, one of them 0.0, and of lines that carry no timestamp.        *)
(***************************************************************************)
GapLines ==
    {<<97>>,                          \* a
     <<48, 46, 48>>,                  \* 0.0
     <<49, 46, 48>>,                  \* 1.0
     <<49, 46, 48, 49>>,              \* 1.01
     <<49, 46, 48, 50, 49>>}          \* 1.021
\* the lines written one after the other, each with its line feed
FileOfLines(lines) == encode_utf8(Flatten([k \in 1..Len(lines) |-> lines[k] \o <<10>>]))
GapFiles == {FileOfLines(lines) : lines \in SeqsUpTo(GapLines, MaxLen)}
GapRegexArgs == {Src_decimal, Src_digits, Src_bad}

InitGaps ==
    /\ disk \in {[p \in {LogPath} |-> f] : f \in GapFiles}
    /\ slot = None
    /\ last = Idle
    /\ conc = ConcIdle

GapsOpen == ParseLogFile(LogPath, Src_empty, Src_empty)
GapsList == \E timestamp_regex \in GapRegexArgs : AnalyzeTimeGaps(timestamp_regex)
NextGaps == GapsOpen \/ GapsList \/ Respond
SpecGaps == InitGaps /\ [][NextGaps]_vars

(***************************************************************************)
(* analyze_workflow_duration over files of start lines (s) and end lines   *)
(* (e), one line both, some with an id (7, 8) and a timestamp, the         *)
(* timestamps not in ascending order.                                      *)
(***************************************************************************)
MaxFlowLines == 4
Src_s == <<115>>                       \* s
Src_e == <<101>>                       \* e
FlowLines ==
    {<<115, 55, 32, 50, 46, 48>>,     \* s7 2.0
     <<101, 55, 32, 49, 46, 48>>,     \* e7 1.0
     <<101, 56, 32, 51, 46, 48>>,     \* e8 3.0
     <<115>>,                         \* s
     <<101>>,                         \* e
     <<115, 101>>}                    \* se
FlowFiles == {FileOfLines(lines) : lines \in SeqsUpTo(FlowLines, MaxFlowLines)}
FlowIdArgs == {None, Some(Src_empty), Some(Src_digits), Some(Src_bad)}

InitFlow ==
    /\ disk \in {[p \in {LogPath} |-> f] : f \in FlowFiles}
    /\ slot = None
    /\ last = Idle
    /\ conc = ConcIdle

FlowOpen == ParseLogFile(LogPath, Src_empty, Src_empty)
FlowDuration == \E id_regex \in FlowIdArgs :
                    AnalyzeWorkflowDuration(Src_s, Src_e, Src_decimal, id_regex)
NextFlow == FlowOpen \/ FlowDuration \/ Respond
SpecFlow == InitFlow /\ [][NextFlow]_vars

(***************************************************************************)
(* parse_log_content with a time-gap threshold of 1.0 s over files of      *)
(* lines stamped 0.000, 0.100, 5.200 and 5.300, none of them a boot line.  *)
(***************************************************************************)
StampLines ==
    {<<48, 46, 48, 48, 48>>,          \* 0.000
     <<48, 46, 49, 48, 48>>,          \* 0.100
     <<53, 46, 50, 48, 48>>,          \* 5.200
     <<53, 46, 51, 48, 48>>}          \* 5.300
StampFiles == {FileOfLines(lines) : lines \in SeqsUpTo(StampLines, MaxFlowLines)}
\* the file of scenario S2
StampFileS2 ==
    FileOfLines(<<<<48, 46, 48, 48, 48>>, <<48, 46, 49, 48, 48>>,
                  <<53, 46, 50, 48, 48>>, <<53, 46, 51, 48, 48>>>>)

InitStamps ==
    /\ disk \in {[p \in {LogPath} |-> f] : f \in StampFiles}
    /\ slot = None
    /\ last = Idle
    /\ conc = ConcIdle

StampsOpen == ParseLogFile(LogPath, Src_empty, Src_empty)
StampsSegment ==
    \E timestamp_regex \in {Src_empty, Src_decimal}, time_gap_threshold \in {0, TimeScale} :
        ParseLogContent(Src_empty, timestamp_regex, time_gap_threshold)
NextStamps == StampsOpen \/ StampsSegment \/ Respond
SpecStamps == InitStamps /\ [][NextStamps]_vars

(***************************************************************************)
(* analyze_log_patterns over files of the two lines of scenario S5 and of  *)
(* a line with a bracketed level and an address, opened with the default   *)
(* regexes; the last line with or without its line feed.                   *)
(***************************************************************************)
\* 2024-01-01 12:00:00 INFO msg 42
Line_msg42 ==
    <<50, 48, 50, 52, 45, 48, 49, 45, 48, 49, 32, 49, 50, 58, 48, 48, 58, 48, 48, 32, 73, 78, 70, 79, 32, 109, 115, 103, 32, 52, 50>>
\* 2024-01-01 12:00:00 INFO msg 43
Line_msg43 ==
    <<50, 48, 50, 52, 45, 48, 49, 45, 48, 49, 32, 49, 50, 58, 48, 48, 58, 48, 48, 32, 73, 78, 70, 79, 32, 109, 115, 103, 32, 52, 51>>
\* [INFO] 0x1f
Line_addr == <<91, 73, 78, 70, 79, 93, 32, 48, 120, 49, 102>>
PatternLines == {Line_msg42, Line_msg43, Line_addr}
\* the lines of S5 in a file: every line with its line feed
ScenarioFiles ==
    {FileOfLines(lines) : lines \in SeqsUpTo({Line_msg42, Line_msg43}, MaxLen)}
PatternFiles ==
    {FileOfLines(lines) : lines \in SeqsUpTo(PatternLines, MaxLen)}
      \cup {FileOfLines(lines) \o final : lines \in SeqsUpTo(PatternLines, MaxLen - 1),
                                          final \in PatternLines}

InitPatterns ==
    /\ disk \in {[p \in {LogPath} |-> f] : f \in PatternFiles}
    /\ slot = None
    /\ last = Idle
    /\ conc = ConcIdle

PatternsOpen == ParseLogFile(LogPath, Src_empty, Src_empty)
NextPatterns == PatternsOpen \/ Patterns \/ Respond
SpecPatterns == InitPatterns /\ [][NextPatterns]_vars

(***************************************************************************)
(* The opens and the segmenters over files of lines that the default       *)
(* patterns match: a line with a bracketed level, a boot line, and a line  *)
(* with neither.                                                           *)
(***************************************************************************)
DefaultLines ==
    {<<91, 105, 110, 102, 111, 93>>,      \* [info]
     <<98, 111, 111, 116, 101, 100>>,     \* booted
     <<97>>}                               \* a
DefaultFiles == {FileOfLines(lines) : lines \in SeqsUpTo(DefaultLines, MaxLen)}
\* no splitter; splitters of which none is usable; the splitter a
NoSplitterArgs == {<<>>, <<Src_bad, Src_empty>>, <<Src_a>>}

InitDefaults ==
    /\ disk \in {[p \in {LogPath} |-> f] : f \in DefaultFiles}
    /\ slot = None
    /\ last = Idle
    /\ conc = ConcIdle

DefaultsOpen == \E boot_regex \in BootArgs, level_regex \in LevelArgs :
                    ParseLogFile(LogPath, boot_regex, level_regex)
DefaultsBoot == ParseLogContent(Src_empty, Src_empty, 0)
DefaultsSplitters == \E splitter_regexes \in NoSplitterArgs :
                         ParseLogWithCustomSplitters(LogPath, splitter_regexes)
NextDefaults == DefaultsOpen \/ DefaultsBoot \/ DefaultsSplitters \/ Respond
SpecDefaults == InitDefaults /\ [][NextDefaults]_vars

(***************************************************************************)
(* analyze_recurrent_intervals over files of four of the workflow lines:   *)
(* the hits are the lines with e, or the lines with s.                     *)
(***************************************************************************)
IntervalLines ==
    {<<115, 55, 32, 50, 46, 48>>,     \* s7 2.0
     <<101, 55, 32, 49, 46, 48>>,     \* e7 1.0
     <<101, 56, 32, 51, 46, 48>>,     \* e8 3.0
     <<101>>}                         \* e
IntervalFiles == {FileOfLines(lines) : lines \in SeqsUpTo(IntervalLines, MaxFlowLines)}

InitIntervals ==
    /\ disk \in {[p \in {LogPath} |-> f] : f \in IntervalFiles}
    /\ slot = None
    /\ last = Idle
    /\ conc = ConcIdle

IntervalsOpen == ParseLogFile(LogPath, Src_empty, Src_empty)
IntervalsList ==
    \E regex \in {Src_s, Src_e, Src_bad}, timestamp_regex \in {Src_decimal, Src_bad} :
        AnalyzeRecurrentIntervals(regex, timestamp_regex)
NextIntervals == IntervalsOpen \/ IntervalsList \/ Respond
SpecIntervals == InitIntervals /\ [][NextIntervals]_vars

(***************************************************************************)
(* parse_log_content with the default boot regex, a timestamp regex and a  *)
(* threshold of 1.0 s over files with a boot line that carries a           *)
(* timestamp.                                                              *)
(***************************************************************************)
BootGapLines ==
    {<<49, 46, 48>>,                             \* 1.0
     <<57, 46, 53>>,                             \* 9.5
     <<98, 111, 111, 116, 101, 100, 32, 57, 46, 48>>,   \* booted 9.0
     <<97>>}                                   \* a
BootGapFiles == {FileOfLines(lines) : lines \in SeqsUpTo(BootGapLines, MaxFlowLines)}

InitBootGaps ==
    /\ disk \in {[p \in {LogPath} |-> f] : f \in BootGapFiles}
    /\ slot = None
    /\ last = Idle
    /\ conc = ConcIdle

BootGapsOpen == ParseLogFile(LogPath, Src_empty, Src_empty)
BootGapsSegment ==
    \E timestamp_regex \in {Src_empty, Src_decimal}, time_gap_threshold \in {0, TimeScale} :
        ParseLogContent(Src_empty, timestamp_regex, time_gap_threshold)
NextBootGaps == BootGapsOpen \/ BootGapsSegment \/ Respond
SpecBootGaps == InitBootGaps /\ [][NextBootGaps]_vars

(***************************************************************************)
(* One text of LF, 'a' and U+4E0A written twice: in UTF-16LE after its BOM *)
(* and in UTF-8.                                                           *)
(***************************************************************************)
EncPaths == {"utf16le", "utf8"}
EncUnits == {10, 97, 19978}
EncDisk(text) ==
    [p \in EncPaths |-> IF p = "utf16le" THEN Bom16Le \o encode_utf16le(text)
                        ELSE encode_utf8(text)]

InitEnc ==
    /\ disk \in {EncDisk(text) : text \in SeqsUpTo(EncUnits, MaxLen)}
    /\ slot = None
    /\ last = Idle
    /\ conc = ConcIdle

OpenEnc == \E path \in EncPaths : ParseLogFile(path, <<>>, <<>>)
NextEnc == OpenEnc \/ Range \/ Respond
SpecEnc == InitEnc /\ [][NextEnc]_vars

(***************************************************************************)
(* Properties.                                                             *)
(***************************************************************************)
\* the result pending in last is the successful one of a command of cmds
Answered(cmds) == last.cmd \in cmds /\ last.res.ok

RECURSIVE SessionLines(_)
SessionLines(sessions) ==
    IF sessions = <<>> THEN 0
    ELSE (Head(sessions).end_line - Head(sessions).start_line + 1)
           + SessionLines(Tail(sessions))

PartitionOf(sessions, n) ==
    /\ sessions # <<>>
    /\ \A i \in 1..Len(sessions) :
          /\ sessions[i].id = i - 1
          /\ sessions[i].start_line <= sessions[i].end_line
    /\ sessions[1].start_line = 1
    /\ sessions[Len(sessions)].end_line = n
    /\ \A i \in 1..(Len(sessions) - 1) :
          sessions[i + 1].start_line = sessions[i].end_line + 1
    /\ SessionLines(sessions) = n

\* C1: the sessions parse_log_content and parse_log_with_custom_splitters
\* return for an index of N >= 1 lines partition [1, N]: ids 0, 1, 2, .. in
\* order, first start_line 1, last end_line N, start_line <= end_line, each
\* session starting one line after the previous one ends, lengths summing to
\* line_count; for an index of 0 lines the list is the one session
\* {0, 1, 0, "Full Log"}.
C1_SessionsPartition ==
    Answered({"parse_log_content", "parse_log_with_custom_splitters"}) =>
        IF last.res.val.line_count >= 1
        THEN PartitionOf(last.res.val.sessions, last.res.val.line_count)
        ELSE last.res.val.sessions = <<LogSession(0, 1, 0, Str_FullLog)>>

\* parse_log_content has returned three sessions
C1_Witness ==
    /\ Answered({"parse_log_content"})
    /\ Len(last.res.val.sessions) >= 3

\* C3 as amended: with an empty slot every command but parse_log_file and
\* parse_log_with_custom_splitters returns NoIndex and leaves the slot
\* empty; parse_log_with_custom_splitters opens its path with the default
\* patterns: it returns the error of that open and leaves the slot empty,
\* or installs the index and returns its sessions.
C3_NoIndexButSplitters ==
    [][(slot = None /\ last.cmd = "none" /\ last'.cmd \notin {"none", "parse_log_file"}) =>
         IF last'.cmd = "parse_log_with_custom_splitters"
         THEN \E reopened \in {open_outcome(disk, last'.args[1], <<>>, <<>>)} :
                 /\ slot' = reopened.index
                 /\ IF reopened.res.ok
                    THEN last'.res = segment_by_splitters(Unwrap(reopened.index),
                                                          last'.args[2])
                    ELSE last'.res = reopened.res
         ELSE last'.res = NoIndex /\ slot' = None]_vars

\* a query has returned NoIndex and the slot is empty
C3_Witness ==
    /\ last.cmd = "get_filtered_indices"
    /\ last.res = NoIndex
    /\ slot = None

\* C3 as claimed: with an empty slot each of the thirteen commands returns
\* NoIndex and leaves the slot empty.
C3_Claimed ==
    [][(slot = None /\ last.cmd = "none" /\ last'.cmd \notin {"none", "parse_log_file"}) =>
         (last'.res = NoIndex /\ slot' = None)]_vars

\* offsets and levels of equal length, built from the mapped bytes
Complete(index) ==
    /\ Len(index.levels) = Len(index.offsets)
    /\ index.offsets = build_offsets(index.mmap)
    /\ \E level_regex \in LevelArgs : index = build_index(index.mmap, level_regex)

\* C4: the slot, empty at first, only ever changes to a completely
\* constructed index; a parse_log_file that fails leaves the slot as it
\* was; one that succeeds replaces the slot, in the one step of the call,
\* with the index built from its file.
C4_SlotComplete ==
    [][/\ slot' # slot => (IsSome(slot') /\ Complete(Unwrap(slot')))
       /\ last'.cmd = "parse_log_file" =>
            IF last'.res.ok
            THEN slot' = Some(build_index(disk[last'.args[1]], last'.args[3]))
            ELSE slot' = slot]_vars

\* an open has failed with IoError while the slot held an index
C4_Witness ==
    /\ last.cmd = "parse_log_file"
    /\ last.res = NoFile
    /\ IsSome(slot)

StrictlyIncreasing(s) == \A i \in 1..(Len(s) - 1) : s[i] < s[i + 1]

\* C5: after a successful open the offsets are strictly increasing, start
\* at the first byte after the BOM, lie in [0, len(bytes)), none equal to
\* len(bytes), and the line count returned is their number.
C5_Offsets ==
    IsSome(slot) =>
        /\ StrictlyIncreasing(Unwrap(slot).offsets)
        /\ Unwrap(slot).offsets # <<>> =>
              Unwrap(slot).offsets[1] = detect_encoding(Unwrap(slot).mmap)[2]
        /\ \A k \in 1..Len(Unwrap(slot).offsets) :
              /\ Unwrap(slot).offsets[k] >= 0
              /\ Unwrap(slot).offsets[k] < Len(Unwrap(slot).mmap)
        /\ Answered({"parse_log_file"}) => last.res.val.lines = Len(Unwrap(slot).offsets)

\* a UTF-16LE file of odd length after its BOM has been opened and has two
\* lines
C5_Witness ==
    /\ Answered({"parse_log_file"})
    /\ IsSome(slot)
    /\ Unwrap(slot).encoding = "Utf16Le"
    /\ (Len(Unwrap(slot).mmap) - 2) % 2 = 1
    /\ Len(Unwrap(slot).offsets) >= 2

\* the line of the index captured on entry that the k-th read must yield
EntryLine(query, k) ==
    LogLine(Unwrap(query.index_opt), query_start_idx(query) + k - 1,
            line_str(Unwrap(query.index_opt).mmap, Unwrap(query.index_opt).offsets,
                     Unwrap(query.index_opt).encoding, query_start_idx(query) + k - 1))

\* C2: a get_log_range interleaved with opens reads every line and level
\* from the index it captured on entry, and returns what get_log_range
\* returns on that index, whatever is installed while it runs.
C2_Snapshot ==
    /\ (conc.query.pc \in {"reading", "returned"} /\ IsSome(conc.query.index_opt)) =>
          \A k \in 1..Len(conc.query.read) :
              conc.query.read[k] = Some(EntryLine(conc.query, k))
    /\ conc.query.pc = "returned" =>
          last.res = get_log_range(conc.query.index_opt, conc.query.start_line,
                                   conc.query.end_line)

\* a query has returned two lines of an index that an open replaced while
\* the query ran
C2_Witness ==
    /\ conc.query.pc = "returned"
    /\ IsSome(conc.query.index_opt)
    /\ slot # conc.query.index_opt
    /\ last.res.ok
    /\ Len(last.res.val) >= 2

\* the number of logical lines LF splits a text into
LogicalLines(text) ==
    Cardinality({k \in 1..Len(text) : text[k] = LF})
      + (IF text # <<>> /\ text[Len(text)] # LF THEN 1 ELSE 0)

Contents(lines) == [k \in 1..Len(lines) |-> lines[k].content]

\* C6 as claimed: opening the UTF-16LE encoding with BOM of a text of N
\* logical lines yields line_count = N, and range(1, N + 1) returns the
\* strings that the UTF-8 encoding of the same text returns.
C6_Claimed ==
    \A n \in {LogicalLines(from_utf8_lossy(disk["utf8"]))} :
        (/\ Answered({"get_log_range"})
         /\ IsSome(slot)
         /\ Unwrap(slot).mmap = disk["utf16le"]
         /\ Unwrap(slot).encoding = "Utf16Le"
         /\ last.args = <<1, n + 1>>) =>
            /\ Len(Unwrap(slot).offsets) = n
            /\ Contents(last.res.val)
                 = Contents(get_log_range(Some(build_index(disk["utf8"], <<>>)),
                                          1, n + 1).val)

\* C7: on an index of N lines get_log_range never fails and returns the
\* lines max(start_line, 1) .. min(end_line, N) in order, each with the
\* level of the index; range(1, N + 1) returns N entries numbered 1 .. N.
C7_RangeClamped ==
    (last.cmd = "get_log_range" /\ IsSome(slot)) =>
        /\ last.res.ok
        /\ Len(last.res.val)
             = Max(Min(last.args[2], Len(Unwrap(slot).offsets)) - Max(last.args[1], 1) + 1, 0)
        /\ \A k \in 1..Len(last.res.val) :
              /\ last.res.val[k].line_number = Max(last.args[1], 1) + k - 1
              /\ last.res.val[k].level
                   = Unwrap(slot).levels[Max(last.args[1], 1) + k - 1]
        /\ last.args = <<1, Len(Unwrap(slot).offsets) + 1>> =>
              /\ Len(last.res.val) = Len(Unwrap(slot).offsets)
              /\ \A k \in 1..Len(last.res.val) : last.res.val[k].line_number = k

\* range(1, N + 1) has returned on an index of at least two lines, one of
\* them with a level
C7_Witness ==
    /\ Answered({"get_log_range"})
    /\ IsSome(slot)
    /\ Len(Unwrap(slot).offsets) >= 2
    /\ last.args = <<1, Len(Unwrap(slot).offsets) + 1>>
    /\ \E k \in 1..Len(last.res.val) : IsSome(last.res.val[k].level)

\* C8 as amended: get_log_range returns the empty list whenever
\* start_line > end_line, and when start_line = end_line is 0 or beyond the
\* line count; start_line = end_line within [1, line_count] returns that
\* one line.
C8_EmptyRange ==
    (last.cmd = "get_log_range" /\ IsSome(slot)) =>
        /\ last.args[1] > last.args[2] => last.res = Ok(<<>>)
        /\ last.args[1] = last.args[2] =>
              IF last.args[1] >= 1 /\ last.args[1] <= Len(Unwrap(slot).offsets)
              THEN /\ last.res.ok
                   /\ Len(last.res.val) = 1
                   /\ last.res.val[1].line_number = last.args[1]
              ELSE last.res = Ok(<<>>)

\* range(k, k) has returned for a line k of the index
C8_Witness ==
    /\ Answered({"get_log_range"})
    /\ IsSome(slot)
    /\ last.args[1] = last.args[2]
    /\ last.args[1] >= 1
    /\ last.args[1] <= Len(Unwrap(slot).offsets)

\* C8 as claimed: get_log_range returns the empty list whenever
\* start_line >= end_line.
C8_Claimed ==
    (last.cmd = "get_log_range" /\ IsSome(slot) /\ last.args[1] >= last.args[2]) =>
        last.res = Ok(<<>>)

\* C9 as claimed: whatever the query and the line_ranges, the entries
\* search_log returns are in ascending order of line_number.
C9_Claimed ==
    Answered({"search_log"}) =>
        \A i \in 1..Len(last.res.val), j \in 1..Len(last.res.val) :
            i < j => last.res.val[i].line_number <= last.res.val[j].line_number

\* the level test and the keyword test of a seed, as the claim states them
LevelTest(index, log_levels, idx) ==
    log_levels = <<>> \/
    \E k \in 1..Len(log_levels) :
        to_uppercase(log_levels[k])
          = (IF IsSome(index.levels[idx + 1])
             THEN to_uppercase(Unwrap(index.levels[idx + 1])) ELSE Str_INFO)

KeywordTest(index, highlights, idx) ==
    \/ \A k \in 1..Len(highlights) : trim(highlights[k]) = <<>>
    \/ \E k \in 1..Len(highlights) :
          /\ trim(highlights[k]) # <<>>
          /\ contains(to_lowercase(line_str(index.mmap, index.offsets,
                                            index.encoding, idx)),
                      to_lowercase(trim(highlights[k])))

\* get_filtered_indices has returned its seeds: no context, no refinement
SeedsReturned ==
    /\ Answered({"get_filtered_indices"})
    /\ IsSome(slot)
    /\ last.args[4] = 0
    /\ last.args[5] = <<>>

\* C10 as amended: an index is a seed iff (a) line_ranges is absent or its
\* line number lies in some range of the list (so that no index is a seed
\* when the list is present and empty), (b) levels is empty or its level
\* ("INFO" when absent) is in levels, compared in upper case, (c) keywords
\* is empty or the lowercased line contains a keyword.
C10_Seeds ==
    SeedsReturned =>
        /\ StrictlyIncreasing(last.res.val)
        /\ {last.res.val[k] : k \in 1..Len(last.res.val)}
             = {idx \in 0..(Len(Unwrap(slot).offsets) - 1) :
                  /\ \/ ~IsSome(last.args[2])
                     \/ in_some_range(Unwrap(last.args[2]), idx + 1)
                  /\ LevelTest(Unwrap(slot), last.args[1], idx)
                  /\ KeywordTest(Unwrap(slot), last.args[3], idx)}

\* the filter has run with a list of ranges that is present and empty, and
\* no other restriction, on an index that has lines
C10_Witness ==
    /\ SeedsReturned
    /\ last.args[1] = <<>>
    /\ last.args[2] = Some(<<>>)
    /\ last.args[3] = <<>>
    /\ Len(Unwrap(slot).offsets) >= 1
    /\ last.res.val = <<>>

\* C10 as claimed: as above, but a list of ranges that is present and
\* empty imposes no range restriction.
C10_Claimed ==
    SeedsReturned =>
        {last.res.val[k] : k \in 1..Len(last.res.val)}
          = {idx \in 0..(Len(Unwrap(slot).offsets) - 1) :
               /\ \/ ~IsSome(last.args[2])
                  \/ Unwrap(last.args[2]) = <<>>
                  \/ in_some_range(Unwrap(last.args[2]), idx + 1)
               /\ LevelTest(Unwrap(slot), last.args[1], idx)
               /\ KeywordTest(Unwrap(slot), last.args[3], idx)}

\* the seed test of C10 as amended, on the arguments of the pending call
SeedOf(index, args, idx) ==
    /\ \/ ~IsSome(args[2])
       \/ in_some_range(Unwrap(args[2]), idx + 1)
    /\ LevelTest(index, args[1], idx)
    /\ KeywordTest(index, args[3], idx)

\* within context_lines of a seed (the seeds themselves without context)
InTraceOf(index, args, j) ==
    IF args[4] = 0 THEN SeedOf(index, args, j)
    ELSE \E s \in 0..(Len(index.offsets) - 1) :
            SeedOf(index, args, s) /\ Abs(j - s) <= args[4]

RefinedOf(index, args, j) ==
    \A r \in 1..Len(parse_refinements(args[5])) :
        refinement_passes(parse_refinements(args[5])[r],
                          line_str(index.mmap, index.offsets, index.encoding, j))

\* get_filtered_indices has returned for a non-empty keyword set
KeywordsFiltered ==
    /\ Answered({"get_filtered_indices"})
    /\ IsSome(slot)
    /\ \E k \in 1..Len(last.args[3]) : trim(last.args[3][k]) # <<>>

\* C11: with keywords, get_filtered_indices returns, ascending and without
\* duplicates, the seeds when context_lines = 0 and the indices within
\* context_lines of a seed otherwise (whatever their own level or range),
\* in both cases restricted to the lines that pass every refinement.
C11_Trace ==
    KeywordsFiltered =>
        /\ StrictlyIncreasing(last.res.val)
        /\ {last.res.val[k] : k \in 1..Len(last.res.val)}
             = {j \in 0..(Len(Unwrap(slot).offsets) - 1) :
                  InTraceOf(Unwrap(slot), last.args, j)
                    /\ RefinedOf(Unwrap(slot), last.args, j)}

\* with context 1 and the range (1, 1) the second line, outside the range,
\* is returned next to the seed on the first line
C11_Witness ==
    /\ KeywordsFiltered
    /\ last.args[2] = Some(<<<<1, 1>>>>)
    /\ last.args[4] = 1
    /\ last.args[5] = <<>>
    /\ last.res.val = <<0, 1>>

\* the indices the scan looks for, on the index the call cloned
FirstHits(index, query, line_ranges) ==
    {idx \in 0..(Len(index.offsets) - 1) :
        /\ IsSome(line_ranges) =>
             \E k \in 1..Len(Unwrap(line_ranges)) :
                 idx + 1 >= Unwrap(line_ranges)[k][1] /\ idx + 1 <= Unwrap(line_ranges)[k][2]
        /\ contains(to_lowercase(line_str(index.mmap, index.offsets, index.encoding, idx)),
                    to_lowercase(query))}

Scanned == conc.query.pc = "scanned" /\ IsSome(conc.query.index_opt)

\* C12: whatever the order in which the threads of the scan take the indices,
\* find_first_occurrence returns the smallest 0-based index whose lowercased
\* line contains the lowercased query and whose 1-based number lies in one of
\* the ranges (when ranges are given), and none when there is no such index;
\* it is the value of the sequential scan.
C12_FirstMatch ==
    Scanned =>
        /\ last.res = find_first_occurrence(conc.query.index_opt, conc.query.query,
                                            conc.query.line_ranges)
        /\ \E hits \in {FirstHits(Unwrap(conc.query.index_opt), conc.query.query,
                                  conc.query.line_ranges)} :
              IF hits = {} THEN last.res.val = None
              ELSE /\ IsSome(last.res.val)
                   /\ Unwrap(last.res.val) \in hits
                   /\ \A other \in hits : Unwrap(last.res.val) <= other

\* the match at index 1 returned by a scan that ran on index 2, which matches
\* too, then on index 0 and last on index 1
C12_Witness ==
    /\ Scanned
    /\ last.res.val = Some(1)
    /\ 2 \in FirstHits(Unwrap(conc.query.index_opt), conc.query.query,
                      conc.query.line_ranges)
    /\ conc.query.tested = <<2, 0, 1>>
    /\ conc.query.line_ranges = Some(<<<<2, 3>>>>)

\* the entries of the time-gap listing for the timestamps of the lines, each
\* an Option: a line with a timestamp whose nearest preceding line with a
\* timestamp lies more than 10.0 ms before it
GapEntries(timestamps) ==
    {[line_number |-> i, gap_ms |-> Unwrap(timestamps[i]) - Unwrap(timestamps[j])] :
        <<i, j>> \in {<<i, j>> \in (1..Len(timestamps)) \X (1..Len(timestamps)) :
                        /\ j < i
                        /\ IsSome(timestamps[i])
                        /\ IsSome(timestamps[j])
                        /\ \A k \in (j + 1)..(i - 1) : ~IsSome(timestamps[k])
                        /\ Unwrap(timestamps[i]) - Unwrap(timestamps[j]) > 10}}

\* the timestamp of a line whose capture parses as a number, 0.0 included
ParsedTimestamp(index, re, idx) ==
    LET cap == captures(re, line_str(index.mmap, index.offsets, index.encoding, idx))
    IN IF IsSome(cap) /\ IsSome(group1(cap))
          /\ (IsSome(parse_f64(Unwrap(group1(cap)))) \/ IsDecimal(Unwrap(group1(cap))))
       THEN Some(parse_timestamp_to_ms(Unwrap(group1(cap))))
       ELSE None

GapsAnswered == Answered({"analyze_time_gaps"}) /\ IsSome(slot)

GapsListed(timestamps) ==
    /\ {last.res.val[k] : k \in 1..Len(last.res.val)} = GapEntries(timestamps)
    /\ \A k \in 1..(Len(last.res.val) - 1) :
           last.res.val[k].line_number < last.res.val[k + 1].line_number
    /\ \A k \in 1..Len(last.res.val) : last.res.val[k].gap_ms > 10

\* C13: the time-gap listing holds an entry {line_number, gap_ms} for line i
\* exactly when line i has a parseable timestamp, a preceding line has one,
\* and gap_ms = ts_i - ts of the nearest such preceding line is > 10.0; the
\* line numbers are strictly ascending and every gap_ms is > 10.0.
C13_Claimed ==
    GapsAnswered =>
        GapsListed([k \in 1..Len(Unwrap(slot).offsets) |->
                      ParsedTimestamp(Unwrap(slot), Unwrap(Regex_new(last.args[1])), k - 1)])

\* the same listing when only a timestamp above 0.0 counts as one
GapsOfPositive ==
    GapsAnswered =>
        GapsListed([k \in 1..Len(Unwrap(slot).offsets) |->
                      gap_timestamp(Unwrap(slot), Unwrap(Regex_new(last.args[1])), k - 1)])

\* gaps of 10 ms and of 11 ms: only the second is listed
GapsOfPositive_Witness ==
    /\ GapsAnswered
    /\ last.args[1] = Src_decimal
    /\ last.res.val = <<[line_number |-> 3, gap_ms |-> 11]>>

\* a successful analyze_workflow_duration, without or with an id regex
FlowAnswered == Answered({"analyze_workflow_duration"}) /\ IsSome(slot)
FlowWithoutId == FlowAnswered /\ last.args[4] \in {None, Some(<<>>)}
FlowWithId == FlowAnswered /\ last.args[4] \notin {None, Some(<<>>)}

\* C14: every segment of workflow_duration has duration_ms >= 0,
\* end_line >= start_line and duration_ms = end_time - start_time, whatever
\* the order of the timestamps in the log.
C14_Claimed ==
    FlowAnswered =>
        \A k \in 1..Len(last.res.val) :
            /\ last.res.val[k].duration_ms >= 0
            /\ last.res.val[k].end_line >= last.res.val[k].start_line
            /\ last.res.val[k].duration_ms
                 = last.res.val[k].end_time - last.res.val[k].start_time

\* what holds of every segment: the lines in order and the duration the
\* difference of the times
SegmentsWellFormed ==
    FlowAnswered =>
        \A k \in 1..Len(last.res.val) :
            /\ last.res.val[k].end_line >= last.res.val[k].start_line
            /\ last.res.val[k].duration_ms
                 = last.res.val[k].end_time - last.res.val[k].start_time

\* the lines of the file analysed, by line number, and what the regexes of
\* the call match on them
FlowLine(i) == line_str(Unwrap(slot).mmap, Unwrap(slot).offsets, Unwrap(slot).encoding, i - 1)
FlowLineCount == Len(Unwrap(slot).offsets)
IsStartLine(i) == is_match(Unwrap(Regex_new(last.args[1])), FlowLine(i))
IsEndLine(i) == is_match(Unwrap(Regex_new(last.args[2])), FlowLine(i))
OnlyStart(i) == IsStartLine(i) /\ ~IsEndLine(i)
OnlyEnd(i) == IsEndLine(i) /\ ~IsStartLine(i)
FlowTs(i) == meta_ts(Unwrap(Regex_new(last.args[3])), FlowLine(i))

\* the last timestamp above 0.0 on the lines 1..i, 0 when there is none
LastValidTs(i) ==
    IF \E k \in 1..i : FlowTs(k) > 0
    THEN FlowTs(CHOOSE k \in 1..i : FlowTs(k) > 0 /\ \A m \in (k + 1)..i : FlowTs(m) <= 0)
    ELSE 0

\* the ends less the starts on the lines i+1..k
Excess(i, k) ==
    Cardinality({j \in (i + 1)..k : OnlyEnd(j)})
      - Cardinality({j \in (i + 1)..k : OnlyStart(j)})

\* end line j closes start line i when the starts are kept as a stack: a
\* line that is a start and an end closes itself, and else j is the first
\* line after i up to which the ends outnumber the starts
LifoPair(i, j) ==
    \/ i = j /\ IsStartLine(i) /\ IsEndLine(i)
    \/ /\ i < j
       /\ OnlyStart(i)
       /\ OnlyEnd(j)
       /\ Excess(i, j) = 1
       /\ \A k \in (i + 1)..(j - 1) : Excess(i, k) <= 0

\* C19: without an id regex the ends are paired with the starts as a stack:
\* an end closes the most recent start not yet closed, a start is closed at
\* most once, an end with no open start and a start never closed give no
\* segment, and the segments (one for each pair whose times are above 0.0)
\* come in ascending order of end_line.
C19_Lifo ==
    FlowWithoutId =>
        /\ {<<last.res.val[k].start_line, last.res.val[k].end_line>> :
                k \in 1..Len(last.res.val)}
             = {<<i, j>> \in (1..FlowLineCount) \X (1..FlowLineCount) :
                    LifoPair(i, j) /\ LastValidTs(i) > 0}
        /\ \A k \in 1..(Len(last.res.val) - 1) :
               last.res.val[k].end_line < last.res.val[k + 1].end_line
        /\ \A k \in 1..Len(last.res.val), m \in 1..Len(last.res.val) :
               last.res.val[k].start_line = last.res.val[m].start_line => k = m
        /\ \A k \in 1..Len(last.res.val) :
               /\ last.res.val[k].id = None
               /\ last.res.val[k].start_time = LastValidTs(last.res.val[k].start_line)
               /\ last.res.val[k].end_time = LastValidTs(last.res.val[k].end_line)

\* start, start, end, end: the inner pair, then the outer pair
C19_Witness ==
    /\ FlowWithoutId
    /\ Len(last.res.val) = 2
    /\ last.res.val[1].start_line = 2 /\ last.res.val[1].end_line = 3
    /\ last.res.val[2].start_line = 1 /\ last.res.val[2].end_line = 4

\* the id the id regex of the call yields on line i, if any
FlowId(i) == meta_id(Regex_new(Unwrap(last.args[4])), FlowLine(i))

\* C20: with an id regex the starts and ends are paired through the ids only:
\* every segment carries an id, its start line and its end line both yield
\* that id, no start is in two segments, and a line on which the id regex
\* does not match is in no segment.
C20_Claimed ==
    FlowWithId =>
        /\ \A k \in 1..Len(last.res.val) :
               /\ IsSome(last.res.val[k].id)
               /\ FlowId(last.res.val[k].start_line) = last.res.val[k].id
               /\ FlowId(last.res.val[k].end_line) = last.res.val[k].id
        /\ \A k \in 1..Len(last.res.val), m \in 1..Len(last.res.val) :
               last.res.val[k].start_line = last.res.val[m].start_line => k = m

\* what holds with an id regex: the two lines of a segment yield the id of
\* the segment, none included, and no start is in two segments
SegmentsOfOneId ==
    FlowWithId =>
        /\ \A k \in 1..Len(last.res.val) :
               /\ FlowId(last.res.val[k].start_line) = last.res.val[k].id
               /\ FlowId(last.res.val[k].end_line) = last.res.val[k].id
        /\ \A k \in 1..Len(last.res.val), m \in 1..Len(last.res.val) :
               last.res.val[k].start_line = last.res.val[m].start_line => k = m

\* a parse_log_content answered for a timestamp regex and a threshold of 1.0 s
GapSegmented ==
    /\ Answered({"parse_log_content"})
    /\ IsSome(slot)
    /\ last.args[2] = Src_decimal
    /\ last.args[3] = TimeScale

Str_5_10s == <<53, 46, 49, 48, 115>>   \* 5.10s

\* C15: after a split on a time gap at line i the session that starts at
\* line i has the marker "Time Gap Detected: X.XXs"; for the four lines
\* stamped 0.000, 0.100, 5.200, 5.300 and the threshold 1.0 s the sessions are
\* {id 0, lines 1-2} and {id 1, lines 3-4, "Time Gap Detected: 5.10s"}.
C15_Claimed ==
    GapSegmented =>
        /\ \A k \in 2..Len(last.res.val.sessions) :
               StartsWith(last.res.val.sessions[k].boot_marker, Str_TimeGapDetected)
        /\ Unwrap(slot).mmap = StampFileS2 =>
               /\ Len(last.res.val.sessions) = 2
               /\ last.res.val.sessions[1].id = 0
               /\ last.res.val.sessions[1].start_line = 1
               /\ last.res.val.sessions[1].end_line = 2
               /\ last.res.val.sessions[2].id = 1
               /\ last.res.val.sessions[2].start_line = 3
               /\ last.res.val.sessions[2].end_line = 4
               /\ last.res.val.sessions[2].boot_marker = Str_TimeGapDetected \o Str_5_10s

\* what the code returns: the marker is on the session that ends before the
\* gap, and the session after the last gap has the marker "End of File"
MarkerBeforeGap ==
    GapSegmented =>
        /\ \A k \in 1..(Len(last.res.val.sessions) - 1) :
               StartsWith(last.res.val.sessions[k].boot_marker, Str_TimeGapDetected)
        /\ last.res.val.sessions[Len(last.res.val.sessions)].boot_marker
             \in {Str_EndOfFile, Str_FullLog}
        /\ Unwrap(slot).mmap = StampFileS2 =>
               last.res.val.sessions
                 = <<LogSession(0, 1, 2, Str_TimeGapDetected \o Str_5_10s),
                     LogSession(1, 3, 4, Str_EndOfFile)>>

MarkerBeforeGap_Witness == GapSegmented /\ Unwrap(slot).mmap = StampFileS2

\* analyze_log_patterns answered on a file of lines of S5, each with its
\* line feed
ScenarioS5 ==
    /\ Answered({"analyze_log_patterns"})
    /\ IsSome(slot)
    /\ Unwrap(slot).mmap \in ScenarioFiles
    /\ Unwrap(slot).mmap # <<>>

\* HH:MM:SS INFO msg N
Str_S5_Claimed ==
    <<72, 72, 58, 77, 77, 58, 83, 83, 32, 73, 78, 70, 79, 32, 109, 115, 103, 32, 78>>
\* N-N-N HH:MM:SS INFO msg N and the line feed
Str_S5_Fingerprint ==
    <<78, 45, 78, 45, 78, 32, 72, 72, 58, 77, 77, 58, 83, 83, 32, 73, 78, 70, 79, 32, 109, 115, 103, 32, 78, 10>>

\* C16 as claimed: the lines "2024-01-01 12:00:00 INFO msg 42" and "... msg 43"
\* opened with the default level regex give exactly one PatternStat, with
\* content "HH:MM:SS INFO msg N", the number of lines as count and level INFO.
C16_Claimed ==
    ScenarioS5 =>
        last.res.val = <<[content |-> Str_S5_Claimed,
                          count |-> Len(Unwrap(slot).offsets),
                          level |-> Some(Str_INFO)]>>

\* C16: the lines of S5, each with its line feed, give exactly one
\* PatternStat: its content is "N-N-N HH:MM:SS INFO msg N" followed by the
\* line feed (times replaced first, then the digit runs, the date among
\* them, then the 0x addresses), its count the number of lines, and it has
\* no level, INFO standing without brackets.
C16_Fingerprint ==
    ScenarioS5 =>
        last.res.val = <<[content |-> Str_S5_Fingerprint,
                          count |-> Len(Unwrap(slot).offsets),
                          level |-> None]>>

\* both lines of S5 in one file of three lines
C16_Witness ==
    /\ ScenarioS5
    /\ Unwrap(slot).mmap = FileOfLines(<<Line_msg42, Line_msg43, Line_msg42>>)
    /\ Len(last.res.val) = 1
    /\ last.res.val[1].count = 3

\* a regex argument replaced by the empty one, which stands for the default,
\* when it does not compile
OrDefault(regex) == IF regex # <<>> /\ ~IsSome(Regex_new(regex)) THEN Src_empty ELSE regex

\* an open answered for a boot regex or a level regex that does not compile
OpenedWithBadRegex ==
    /\ last.cmd = "parse_log_file"
    /\ \/ last.args[2] # <<>> /\ ~IsSome(Regex_new(last.args[2]))
       \/ last.args[3] # <<>> /\ ~IsSome(Regex_new(last.args[3]))

\* C17: an open with a non-empty level or boot regex that does not compile
\* succeeds and leaves what the open with the default regex in its place
\* leaves: the same levels in the index and the same session count.
C17_Claimed ==
    OpenedWithBadRegex =>
        /\ last.res.ok
        /\ last.res = open_outcome(disk, last.args[1], OrDefault(last.args[2]),
                                   OrDefault(last.args[3])).res
        /\ slot = open_outcome(disk, last.args[1], OrDefault(last.args[2]),
                               OrDefault(last.args[3])).index

\* what the code does: the open succeeds, a level regex that does not compile
\* leaves every level absent, a boot regex that does not compile gives one
\* session
BadRegexIsNoRegex ==
    OpenedWithBadRegex =>
        /\ last.res.ok
        /\ IsSome(slot)
        /\ (last.args[3] # <<>> /\ ~IsSome(Regex_new(last.args[3]))) =>
               \A k \in 1..Len(Unwrap(slot).levels) : Unwrap(slot).levels[k] = None
        /\ (last.args[2] # <<>> /\ ~IsSome(Regex_new(last.args[2]))) =>
               last.res.val.sessions = 1

\* a segmentation by splitters answered for a list with no usable splitter
NoSplitterSegmented ==
    /\ Answered({"parse_log_with_custom_splitters"})
    /\ IsSome(slot)
    /\ compiled_splitters(last.args[2]) = <<>>

\* C18: with no usable splitter segment_by_splitters returns the session list
\* that the boot segmenter returns with the default boot regex on the same
\* index.
C18_Claimed ==
    NoSplitterSegmented =>
        last.res.val.sessions = segment_by_boot(slot, Src_empty, Src_empty, 0).val.sessions

\* what the code does: with no usable splitter the whole file is one session
OneSessionWithoutSplitters ==
    NoSplitterSegmented =>
        last.res.val.sessions
          = <<tail_session(0, 1, Len(Unwrap(slot).offsets))>>

\* a successful analyze_recurrent_intervals, its hits and their timestamps
IntervalsAnswered == Answered({"analyze_recurrent_intervals"}) /\ IsSome(slot)
HitLine(i) == is_match(Unwrap(Regex_new(last.args[1])), FlowLine(i))
HitTs(i) == meta_ts(Unwrap(Regex_new(last.args[2])), FlowLine(i))
\* the last timestamp above 0.0 on the lines 1..i, 0 when there is none
HitLastValid(i) ==
    IF \E k \in 1..i : HitTs(k) > 0
    THEN HitTs(CHOOSE k \in 1..i : HitTs(k) > 0 /\ \A m \in (k + 1)..i : HitTs(m) <= 0)
    ELSE 0
\* the hits by which a timestamp above 0.0 has been seen, in line order
ValidHits == SortedSeq({i \in 1..FlowLineCount : HitLine(i) /\ HitLastValid(i) > 0})
\* every hit carries a timestamp above 0.0 of its own
AllHitsStamped == \A i \in 1..FlowLineCount : HitLine(i) => HitTs(i) > 0

\* C21: recurrent_intervals emits a segment between consecutive hits only:
\* the first hit is the baseline and emits nothing, every later hit emits one
\* segment from the line and time of the hit before it to its own, with
\* duration = current_ts - prev_ts; k hits with a valid timestamp give k - 1
\* segments, and the end of segment j is the start of segment j + 1.
C21_Intervals ==
    IntervalsAnswered =>
        /\ last.res.val
             = [k \in 1..(Len(ValidHits) - 1) |->
                  WorkflowSegment(ValidHits[k], ValidHits[k + 1],
                                  HitLastValid(ValidHits[k]),
                                  HitLastValid(ValidHits[k + 1]), None)]
        /\ \A j \in 1..(Len(last.res.val) - 1) :
               /\ last.res.val[j].end_line = last.res.val[j + 1].start_line
               /\ last.res.val[j].end_time = last.res.val[j + 1].start_time
        /\ \A j \in 1..Len(last.res.val) :
               last.res.val[j].duration_ms
                 = last.res.val[j].end_time - last.res.val[j].start_time
        /\ AllHitsStamped =>
               /\ \A j \in 1..Len(last.res.val) :
                      /\ last.res.val[j].start_time = HitTs(last.res.val[j].start_line)
                      /\ last.res.val[j].end_time = HitTs(last.res.val[j].end_line)
               /\ Len(last.res.val)
                    = Max(Cardinality({i \in 1..FlowLineCount : HitLine(i)}) - 1, 0)

\* three hits, each with its timestamp: two segments, the second from the
\* end of the first
C21_Witness ==
    /\ IntervalsAnswered
    /\ AllHitsStamped
    /\ Cardinality({i \in 1..FlowLineCount : HitLine(i)}) = 3
    /\ Len(last.res.val) = 2
    /\ last.res.val[1].duration_ms = 2000
    /\ last.res.val[2].start_line = last.res.val[1].end_line

\* a parse_log_content answered for a timestamp regex that compiles and a
\* positive threshold
GapsAndBoots ==
    /\ Answered({"parse_log_content"})
    /\ IsSome(slot)
    /\ IsSome(compile_ts_re(last.args[2]))
    /\ last.args[3] > 0

\* line i matches the boot regex of the call; its timestamp, if it parses
BootLine(i) ==
    /\ IsSome(compile_boot_re(last.args[1]))
    /\ is_match(Unwrap(compile_boot_re(last.args[1])), FlowLine(i))
StampOf(i) == content_timestamp(compile_ts_re(last.args[2]), FlowLine(i))

\* the lines (from line 2 on) at which the call split on a time gap: the
\* line after a session whose marker is the one of a gap
GapSplitLines ==
    {last.res.val.sessions[k].end_line + 1 :
        k \in {k \in 1..(Len(last.res.val.sessions) - 1) :
                 StartsWith(last.res.val.sessions[k].boot_marker, Str_TimeGapDetected)}}

\* C22: last_time is the timestamp of the nearest preceding line whose
\* timestamp parsed, boot-split lines included: the call splits on a time
\* gap at line i exactly when line i is not a boot split and its timestamp
\* is more than the threshold away from that of the nearest preceding line
\* with a timestamp.
C22_Claimed ==
    GapsAndBoots =>
        GapSplitLines
          = {i \in 2..FlowLineCount :
               /\ ~BootLine(i)
               /\ IsSome(StampOf(i))
               /\ \E j \in 1..(i - 1) :
                     /\ IsSome(StampOf(j))
                     /\ \A k \in (j + 1)..(i - 1) : ~IsSome(StampOf(k))
                     /\ Abs(Unwrap(StampOf(i)) - Unwrap(StampOf(j))) > last.args[3]}

\* what the code does: the timestamp of a line that split on the boot regex
\* is not read, so last_time is the timestamp of the nearest preceding line
\* with a timestamp that was not a boot split
GapFromLastRead ==
    GapsAndBoots =>
        GapSplitLines
          = {i \in 2..FlowLineCount :
               /\ ~BootLine(i)
               /\ IsSome(StampOf(i))
               /\ \E j \in 1..(i - 1) :
                     /\ IsSome(StampOf(j)) /\ (j = 1 \/ ~BootLine(j))
                     /\ \A k \in (j + 1)..(i - 1) : ~IsSome(StampOf(k)) \/ BootLine(k)
                     /\ Abs(Unwrap(StampOf(i)) - Unwrap(StampOf(j))) > last.args[3]}

\* a successful open, and the sessions the boot segmenter returns on the
\* index it installed, for the same boot regex and no time-gap threshold
Opened == Answered({"parse_log_file"}) /\ IsSome(slot)
SessionsOfBoot == segment_by_boot(slot, last.args[2], Src_empty, 0).val.sessions

\* C23: the sessions number in the FileInfo of open is the number of sessions
\* segment_by_boot returns for the same index and the same boot regex without
\* a time-gap threshold, also when the first line matches the boot regex.
C23_Claimed == Opened => last.res.val.sessions = Len(SessionsOfBoot)

\* what the code does: open counts a match on the first line, the segmenter
\* does not split there
OpenCountsFirstLine ==
    Opened =>
        last.res.val.sessions
          = Len(SessionsOfBoot)
              + (IF /\ FlowLineCount > 0
                    /\ IsSome(compile_boot_re(last.args[2]))
                    /\ is_match(Unwrap(compile_boot_re(last.args[2])), FlowLine(1))
                 THEN 1 ELSE 0)

====
